---- MODULE Spec2Model ----
(***************************************************************************)
(* Model of the maelbreaker node runtime (src/src/runtime.rs), its network *)
(* facade (src/src/network.rs) and the message model (src/src/types.rs),   *)
(* driven by a node shaped like the gcount workload                        *)
(* (src/src/bin/gcount/main.rs): a handler and a worker thread that share  *)
(* one facade and draw rpc ids from one atomic counter.                    *)
(* The kafka, gcount and broadcast workloads are modelled on their own,    *)
(* each in one record (kf, gc, bc), for the properties of their protocols. *)
(***************************************************************************)
EXTENDS Integers, Sequences, FiniteSets, TLC

\* ------------------------------------------------------------------------
\* Bounds of the model
\* ------------------------------------------------------------------------
\* lines the reader thread reads from stdin, the init line included
MaxLines == 4
\* lines read by the runtime with the echo node
MaxLinesEcho == 4
\* lines read in the specification with fairness
MaxLinesLive == 3
\* lines read in the specifications with a worker that abandons or
\* misuses rpcs, with a stdout that fails, or with stray replies
MaxLinesDrop == 3
\* ids drawn from kafka's Sequence
MaxDraws == 4
\* kafka: send requests the clients issue
MaxSends == 2
\* gcount: add requests the node handles
MaxAdds == 4
\* broadcast: values the clients broadcast
MaxBroadcasts == 2
\* rpcs the worker thread issues
MaxWorkerRpc == 1
\* Network::new() calls, Network values and operations on them when the
\* facade is used on its own
MaxNets == 2
MaxHandles == 3
MaxNetOps == 3

\* ------------------------------------------------------------------------
\* Message model (types.rs)
\* ------------------------------------------------------------------------
\* Option::None of the Option<usize> fields msg_id and in_reply_to
None == -1

Body(msg_id, in_reply_to, payload) ==
    [msg_id |-> msg_id, in_reply_to |-> in_reply_to, payload |-> payload]

Message(src, dest, body) == [src |-> src, dest |-> dest, body |-> body]

\* usize, scaled down to four bits: msg_id and in_reply_to are
\* Option<usize>
UsizeMax == 15

\* from_init: Arc::new(AtomicUsize::new(5)), the first rpc id of the node
SeqStart == 5

\* a reply that keeps the request's direction
into_reply_with_id_unswapped(self, payload, msg_id) ==
    Message(self.src, self.dest, Body(msg_id, self.body.msg_id, payload))

\* Message::into_reply_with_id
into_reply_with_id(self, payload, msg_id) ==
    Message(self.dest, self.src, Body(msg_id, self.body.msg_id, payload))

\* Message::into_reply where `id + 1` is evaluated without overflow checks
\* (it wraps); with overflow checks the addition panics when it overflows
into_reply(self, payload) ==
    LET next_id == IF self.body.msg_id = None THEN None
                   ELSE (self.body.msg_id + 1) % (UsizeMax + 1)
    IN  into_reply_with_id(self, payload, next_id)

\* `id + 1` in into_reply overflows
AddOverflows(self) == self.body.msg_id = UsizeMax

\* payload enums: the runtime's Init and the node's Payload
InitVariants == {"Init", "InitOk"}
PayloadVariants == {"Add", "AddOk", "Read", "ReadOk", "KvCas", "KvCasOk",
                    "Error"}

\* the echo node's Payload
EchoVariants == {"Echo", "EchoOk"}

\* serde(tag = "type", rename_all = "snake_case"), with gcount's renames
TypeTag(variant) ==
    CASE variant = "Init"    -> "init"
      [] variant = "InitOk"  -> "init_ok"
      [] variant = "Add"     -> "add"
      [] variant = "AddOk"   -> "add_ok"
      [] variant = "Read"    -> "read"
      [] variant = "ReadOk"  -> "read_ok"
      [] variant = "Echo"    -> "echo"
      [] variant = "EchoOk"  -> "echo_ok"
      [] variant = "KvCas"   -> "cas"
      [] variant = "KvCasOk" -> "cas_ok"
      [] variant = "Error"   -> "error"

\* serde_json::to_string of a Message: the payload is flattened into the
\* body next to msg_id and in_reply_to, its variant becomes the "type" tag
to_string(m) ==
    LET p == m.body.payload
        fields == [f \in (DOMAIN p) \ {"variant"} |-> p[f]]
    IN  [src |-> m.src, dest |-> m.dest,
         body |-> [msg_id |-> m.body.msg_id,
                   in_reply_to |-> m.body.in_reply_to,
                   type |-> TypeTag(p.variant)] @@ fields]

ParseError == [error |-> "parse"]

\* serde_json::from_str::<Message<P>> for the enum with the given variants:
\* fails on a line that is no JSON object or whose type tag names no variant
from_str(line, variants) ==
    IF "body" \notin DOMAIN line THEN ParseError
    ELSE IF \A v \in variants : TypeTag(v) # line.body.type THEN ParseError
    ELSE LET b == line.body
             v == CHOOSE w \in variants : TypeTag(w) = b.type
             fields == [f \in (DOMAIN b) \ {"msg_id", "in_reply_to", "type"}
                          |-> b[f]]
         IN  Message(line.src, line.dest,
                     Body(b.msg_id, b.in_reply_to,
                          [variant |-> v] @@ fields))

\* ------------------------------------------------------------------------
\* The harness side: what Maelstrom writes to the node's stdin
\* ------------------------------------------------------------------------
NodeId == "n1"
Client == "c1"
Service == "seq-kv"

EOI == [text |-> "EOI"]

InitLine(i) ==
    to_string(Message(Client, NodeId,
        Body(i, None, [variant |-> "Init", node_id |-> NodeId,
                       node_ids |-> <<NodeId>>])))

AddLine(i) ==
    to_string(Message(Client, NodeId,
        Body(i, None, [variant |-> "Add", delta |-> 1])))

ReadLine(i) ==
    to_string(Message(Client, NodeId, Body(i, None, [variant |-> "Read"])))

ReplyLine(i, k) ==
    to_string(Message(Service, NodeId, Body(i, k, [variant |-> "KvCasOk"])))

\* an init_ok where the init is due: parses as Message<Init>, wrong variant
InitOkLine(i) ==
    to_string(Message(Client, NodeId, Body(i, None, [variant |-> "InitOk"])))

\* a line that is not a JSON message
Garbage == [text |-> "not json"]

\* ------------------------------------------------------------------------
\* State
\* ------------------------------------------------------------------------
VARIABLES
    lines,        \* history: the stdin lines the reader thread has read
    rdr,          \* the reader thread spawned by run
    rx,           \* runtime.rs: the line channel stdin_tx -> stdin_rx
    pcMain,       \* position of the main thread in run_internal/process_input
    init,         \* the parsed init message
    dpc,          \* the dispatcher thread spawned by process_input
    json_ch,      \* process_input: the channel json_tx -> json_rx
    cur,          \* the message handle_message is running on
    wpc,          \* the worker thread spawned by from_init
    wrpcs,        \* number of rpcs the worker has issued
    seq,          \* the node's shared AtomicUsize of rpc ids
    call,         \* per node thread: where it is in an rpc
    rpcm,         \* per node thread: the message of its rpc in progress
    ch,           \* per node thread: the one-shot channel of its rpc
    ret,          \* per node thread: its last rpc call, msg_id and result
    lock,         \* network.rs: holder of the callbacks mutex
    callbacks,    \* network.rs: msg_id -> one-shot sender
    chans,        \* every one-shot channel created by rpc
    outbound,     \* network.rs: the outbound channel of the facade
    spc,          \* the outbound serializer thread (process_output)
    stdout_ch,    \* runtime.rs: the channel stdout_tx -> stdout_rx
    wtr,          \* the writer thread spawned by run
    written,      \* lines the writer thread has written to stdout
    exited,       \* the process has terminated
    enq,          \* history: messages in the order they entered outbound
    dispatched,   \* history: messages the dispatcher checked, with outcome
    handled,      \* history: messages passed to handle_message
    returned,     \* history: number of handle_message calls that returned
    herrs,        \* history: number of those calls that returned an error
    nets,         \* network.rs on its own: the state behind each new()
    handles,      \* network.rs on its own: each Network value's state
    nhist,        \* history of the operations on those Network values
    rcall,        \* types.rs on its own: the last into_reply call and result
    node,         \* the Node implementation the runtime is built with
    sq,           \* kafka on its own: the shared Sequence and its users
    kf,           \* kafka: two nodes, their clients and the network
    gc,           \* gcount: the worker, its unapplied counter and seq-kv
    bc            \* broadcast: the nodes, their replicators and the network

vars == <<lines, rdr, rx, pcMain, init, dpc, json_ch, cur, wpc, wrpcs,
          seq, call, rpcm, ch, ret, lock, callbacks, chans, outbound, spc,
          stdout_ch, wtr, written, exited, enq, dispatched, handled,
          returned, herrs, nets, handles, nhist,
          rcall, node, sq, kf, gc, bc>>

Threads == {"main", "worker"}

\* kafka: the threads that hold a clone of the node's Sequence: the three
\* workers, which pass their ids to rpc, and the handler thread, which
\* numbers the commits it forwards with send
SeqWorkers == {"poll_worker", "send_worker", "list_committed_worker"}
SeqThreads == SeqWorkers \cup {"handler"}

NoMsg == [none |-> TRUE]

\* ------------------------------------------------------------------------
\* kafka (bin/kafka/main.rs): the parties of a two-node cluster
\* ------------------------------------------------------------------------
\* node_ids of the init message, the same list on every node
KNodeIds == <<"n1", "n2">>
KNodes == {KNodeIds[i] : i \in 1..Len(KNodeIds)}
KClients == {"c1", "c2"}
KKeys == {"k1", "k2"}

\* the threads of a node that can wait on an rpc
KThreads == {"handler", "send_worker"}

\* u64 hash values, scaled down
KHashMax == 1

\* DefaultHasher::new() on a key: a fixed function of the key, the same in
\* every process; which function is left open
KHashes == [KKeys -> 0..KHashMax]

\* a cluster whose nodes have run from_init, with nothing sent yet
KafkaStart(h) ==
    [hash |-> h,
     net |-> {},
     jq |-> [n \in KNodes |-> <<>>],
     send_worker |-> [n \in KNodes |-> <<>>],
     pc |-> [n \in KNodes |-> [t \in KThreads |->
                 IF t = "handler" THEN "run" ELSE "idle"]],
     job |-> [n \in KNodes |-> [t \in KThreads |-> NoMsg]],
     reg |-> [n \in KNodes |-> <<>>],
     buf |-> [n \in KNodes |-> [t \in KThreads |-> NoMsg]],
     sequence |-> [n \in KNodes |-> 0],
     logs |-> [n \in KNodes |-> [k \in KKeys |-> <<>>]],
     csent |-> [c \in KClients |-> 0],
     cgot |-> [c \in KClients |-> {}]]

\* gcount's worker and seq-kv after the worker's seed cas and before the
\* first add: unapplied is the node's counter, store the value seq-kv
\* holds under the node's key, to_apply, from and to the worker's locals;
\* acked counts the deltas that were answered with add_ok
GcStart ==
    [unapplied |-> 0, store |-> 0, pc |-> "load", to_apply |-> 0,
     from |-> 0, to |-> 0, acked |-> 0, last |-> "none"]

\* broadcast's nodes after from_init on the given node_ids, before the
\* first broadcast: per node the messages set, the seq counter and the
\* unreplicated map (peer -> entries), which has no key yet; net holds the
\* messages in flight between the nodes, vals counts the values the
\* clients have broadcast
BcStart(node_ids) ==
    [node_ids |-> node_ids,
     messages |-> [n \in node_ids |-> {}],
     seq |-> [n \in node_ids |-> 0],
     unreplicated |-> [n \in node_ids |-> <<>>],
     alive |-> [n \in node_ids |-> TRUE],
     net |-> {},
     vals |-> 0]

InitRuntime(n) ==
    /\ node = n
    /\ lines = <<>>
    /\ rdr = "run"
    /\ rx = <<>>
    /\ pcMain = "recv_init"
    /\ init = NoMsg
    /\ dpc = "unspawned"
    /\ json_ch = <<>>
    /\ cur = NoMsg
    /\ wpc = "unspawned"
    /\ wrpcs = 0
    /\ seq = SeqStart
    /\ call = [t \in Threads |-> "none"]
    /\ rpcm = [t \in Threads |-> NoMsg]
    /\ ch = [t \in Threads |-> 0]
    /\ ret = [t \in Threads |-> [id |-> None, res |-> "none"]]
    /\ lock = "free"
    /\ callbacks = <<>>
    /\ chans = <<>>
    /\ outbound = <<>>
    /\ spc = "unspawned"
    /\ stdout_ch = <<>>
    /\ written = <<>>
    /\ exited = FALSE
    /\ enq = <<>>
    /\ dispatched = <<>>
    /\ handled = <<>>
    /\ returned = 0
    /\ herrs = 0
    /\ wtr = "run"
    /\ rcall = NoMsg
    /\ sq = [shared |-> 0,
             pc |-> [t \in SeqThreads |-> "idle"],
             id |-> [t \in SeqThreads |-> None],
             n |-> [t \in SeqThreads |-> 0],
             reg |-> {}, issued |-> <<>>, dups |-> 0]
    /\ nets = <<>>
    /\ handles = <<>>
    /\ nhist = [origin |-> <<>>, pend |-> {}, sent |-> <<>>, recvd |-> <<>>,
                last |-> NoMsg, ops |-> 0]

\* the state in which run() starts; the workloads modelled on their own
\* are at their start
InitOf(n) ==
    /\ InitRuntime(n)
    /\ kf = KafkaStart([k \in KKeys |-> 0])
    /\ gc = GcStart
    /\ bc = BcStart({"n1", "n2", "n3"})

\* Runtime::<Payload, GCountNode>::run() at its start
Init == InitOf("gcount")

\* Runtime::<Payload, EchoNode>::run() at its start
EchoInit == InitOf("echo")

\* ------------------------------------------------------------------------
\* Network facade (network.rs)
\* ------------------------------------------------------------------------
\* std::sync::mpsc::channel() made by rpc for msg_id k on thread t.  tx and
\* rx say whether the sender and the receiver half still exist; sent, all
\* and got are history: the request reached outbound, every message ever
\* sent on the channel, every message the receiver returned.
NewChan(k, t) ==
    [k |-> k, owner |-> t, buf |-> <<>>, tx |-> TRUE, rx |-> TRUE,
     sent |-> FALSE, all |-> <<>>, got |-> <<>>]

\* HashMap::insert: an existing value is replaced
Insert(cb, k, c) == (k :> c) @@ cb

\* HashMap::remove
Remove(cb, k) == [x \in (DOMAIN cb) \ {k} |-> cb[x]]

\* the receive endpoint returned by Network::new() still exists
OutboundOpen == spc # "ended"

\* Network::send as seen by the caller: TRUE is Ok
SendOk == OutboundOpen

\* a send that enqueues even when the receive endpoint is gone
SendIgnoringClosed(msg) ==
    /\ outbound' = Append(outbound, msg)
    /\ enq' = Append(enq, msg)

\* Network::send on the outbound channel
Send(msg) ==
    IF SendOk
    THEN /\ outbound' = Append(outbound, msg)
         /\ enq' = Append(enq, msg)
    ELSE UNCHANGED <<outbound, enq>>

\* rpc that forgets the registration: the request goes out although the
\* registry has no entry for it
RpcRegisterUnregistered(t, msg) ==
    /\ lock = "free"
    /\ call[t] = "none"
    /\ chans' = Append(chans, NewChan(msg.body.msg_id, t))
    /\ lock' = t
    /\ call' = [call EXCEPT ![t] = "rpc"]
    /\ rpcm' = [rpcm EXCEPT ![t] = msg]
    /\ ch' = [ch EXCEPT ![t] = Len(chans) + 1]
    /\ ret' = [ret EXCEPT ![t] = [id |-> msg.body.msg_id, res |-> "pending"]]
    /\ UNCHANGED callbacks

\* rpc that ignores what insert returns: a duplicate id is registered anew
\* and the request goes out
RpcRegisterOverwriting(t, msg) ==
    /\ lock = "free"
    /\ call[t] = "none"
    /\ LET k == msg.body.msg_id
           c == Len(chans) + 1
       IN  IF k = None
           THEN /\ ret' = [ret EXCEPT ![t] = [id |-> k, res |-> "missing_msg_id"]]
                /\ UNCHANGED <<callbacks, chans, lock, call, rpcm, ch>>
           ELSE /\ callbacks' = Insert(callbacks, k, c)
                /\ chans' = IF k \in DOMAIN callbacks
                             THEN Append([chans EXCEPT ![callbacks[k]].tx = FALSE],
                                         NewChan(k, t))
                             ELSE Append(chans, NewChan(k, t))
                /\ lock' = t
                /\ call' = [call EXCEPT ![t] = "rpc"]
                /\ rpcm' = [rpcm EXCEPT ![t] = msg]
                /\ ch' = [ch EXCEPT ![t] = c]
                /\ ret' = [ret EXCEPT ![t] = [id |-> k, res |-> "pending"]]

\* rpc that does not look whether msg_id is present: the absent id is
\* registered like any other and the request goes out
RpcRegisterNoIdCheck(t, msg) ==
    /\ lock = "free"
    /\ call[t] = "none"
    /\ LET k == msg.body.msg_id
           c == Len(chans) + 1
       IN  IF k \in DOMAIN callbacks
           THEN /\ callbacks' = Insert(callbacks, k, c)
                /\ chans' = Append([chans EXCEPT ![callbacks[k]].tx = FALSE],
                                   [NewChan(k, t) EXCEPT !.rx = FALSE])
                /\ ret' = [ret EXCEPT ![t] =
                                [id |-> k, res |-> "duplicate_msg_id"]]
                /\ UNCHANGED <<lock, call, rpcm, ch>>
           ELSE /\ callbacks' = Insert(callbacks, k, c)
                /\ chans' = Append(chans, NewChan(k, t))
                /\ lock' = t
                /\ call' = [call EXCEPT ![t] = "rpc"]
                /\ rpcm' = [rpcm EXCEPT ![t] = msg]
                /\ ch' = [ch EXCEPT ![t] = c]
                /\ ret' = [ret EXCEPT ![t] = [id |-> k, res |-> "pending"]]

\* Network::rpc up to and including the registration: lock, channel(),
\* msg_id check, insert.  On success the thread goes on to the send with
\* the mutex held; on failure rpc returns and the thread carries on.
RpcRegister(t, msg) ==
    /\ lock = "free"
    /\ call[t] = "none"
    /\ LET k == msg.body.msg_id
           c == Len(chans) + 1
       IN  IF k = None
           THEN \* ok_or(..)? returns before the insert; tx and rx are dropped
                /\ ret' = [ret EXCEPT ![t] = [id |-> k, res |-> "missing_msg_id"]]
                /\ UNCHANGED <<callbacks, chans, lock, call, rpcm, ch>>
           ELSE IF k \in DOMAIN callbacks
           THEN \* insert put the new sender in place of the old one, which
                \* is dropped with the returned Option; bail! drops rx
                /\ callbacks' = Insert(callbacks, k, c)
                /\ chans' = Append([chans EXCEPT ![callbacks[k]].tx = FALSE],
                                   [NewChan(k, t) EXCEPT !.rx = FALSE])
                /\ ret' = [ret EXCEPT ![t] =
                                [id |-> k, res |-> "duplicate_msg_id"]]
                /\ UNCHANGED <<lock, call, rpcm, ch>>
           ELSE /\ callbacks' = Insert(callbacks, k, c)
                /\ chans' = Append(chans, NewChan(k, t))
                /\ lock' = t
                /\ call' = [call EXCEPT ![t] = "rpc"]
                /\ rpcm' = [rpcm EXCEPT ![t] = msg]
                /\ ch' = [ch EXCEPT ![t] = c]
                /\ ret' = [ret EXCEPT ![t] = [id |-> k, res |-> "pending"]]

\* rpc that returns with the registry still locked: the guard lives as long
\* as the receiver the caller waits on
RpcSendHoldingLock(t) ==
    /\ call[t] = "rpc"
    /\ lock = t
    /\ Send(rpcm[t])
    /\ IF SendOk
       THEN /\ chans' = [chans EXCEPT ![ch[t]].sent = TRUE]
            /\ call' = [call EXCEPT ![t] = "hold"]
            /\ UNCHANGED ch
       ELSE /\ chans' = [chans EXCEPT ![ch[t]].rx = FALSE]
            /\ call' = [call EXCEPT ![t] = "none"]
            /\ ch' = [ch EXCEPT ![t] = 0]
    /\ rpcm' = [rpcm EXCEPT ![t] = NoMsg]
    /\ ret' = [ret EXCEPT ![t].res = IF SendOk THEN "ok" ELSE "send_failed"]
    /\ lock' = IF SendOk THEN lock ELSE "free"

\* Network::rpc from self.send(msg)? to the return, which unlocks
RpcSend(t) ==
    /\ call[t] = "rpc"
    /\ lock = t
    /\ Send(rpcm[t])
    /\ IF SendOk
       THEN /\ chans' = [chans EXCEPT ![ch[t]].sent = TRUE]
            /\ call' = [call EXCEPT ![t] = "hold"]
            /\ UNCHANGED ch
       ELSE /\ chans' = [chans EXCEPT ![ch[t]].rx = FALSE]
            /\ call' = [call EXCEPT ![t] = "none"]
            /\ ch' = [ch EXCEPT ![t] = 0]
    /\ rpcm' = [rpcm EXCEPT ![t] = NoMsg]
    /\ ret' = [ret EXCEPT ![t].res = IF SendOk THEN "ok" ELSE "send_failed"]
    /\ lock' = "free"

\* check_callback that hands every message back to its caller
ConsumedNever(cb, chs, msg) == FALSE

\* check_callback that reports every message with a registered in_reply_to
\* as consumed, whether or not the forward succeeded
ConsumedOnMatch(cb, chs, msg) ==
    LET k == msg.body.in_reply_to
    IN  k # None /\ k \in DOMAIN cb

\* check_callback that hands error payloads back to its caller
ConsumedUnlessError(cb, chs, msg) ==
    LET k == msg.body.in_reply_to
    IN  /\ k # None
        /\ k \in DOMAIN cb
        /\ chs[cb[k]].rx
        /\ msg.body.payload.variant # "Error"

\* Network::check_callback: TRUE when the message is consumed (None)
Consumed(cb, chs, msg) ==
    LET k == msg.body.in_reply_to
    IN  /\ k # None
        /\ k \in DOMAIN cb
        /\ chs[cb[k]].rx

\* check_callback that looks the sender up and leaves it in the registry
CheckCallbacksKeep(cb, msg) == cb

\* check_callback that evicts a registered sender when the message
\* matches none
CheckCallbacksEvictOnMiss(cb, msg) ==
    LET k == msg.body.in_reply_to
    IN  IF k # None /\ k \in DOMAIN cb THEN Remove(cb, k)
        ELSE IF DOMAIN cb = {} THEN cb
        ELSE Remove(cb, CHOOSE x \in DOMAIN cb : TRUE)

\* the registry after check_callback
CheckCallbacks(cb, msg) ==
    LET k == msg.body.in_reply_to
    IN  IF k # None /\ k \in DOMAIN cb THEN Remove(cb, k) ELSE cb

\* a rendezvous channel: the reply is handed over only to a receiver that
\* is already waiting, so a reply sent before the receive is lost
CheckChansUnbuffered(cb, chs, msg) ==
    LET k == msg.body.in_reply_to
    IN  IF k # None /\ k \in DOMAIN cb
        THEN [chs EXCEPT ![cb[k]].all = Append(@, msg), ![cb[k]].tx = FALSE]
        ELSE chs

\* the one-shot channels after check_callback: the removed sender is used
\* once and dropped
CheckChans(cb, chs, msg) ==
    LET k == msg.body.in_reply_to
    IN  IF k # None /\ k \in DOMAIN cb
        THEN LET c == cb[k]
             IN  IF chs[c].rx
                 THEN [chs EXCEPT ![c].buf = Append(@, msg),
                                  ![c].all = Append(@, msg),
                                  ![c].tx = FALSE]
                 ELSE [chs EXCEPT ![c].tx = FALSE]
        ELSE chs

\* Receiver::recv on the one-shot channel of thread t, when it can return:
\* a buffered message, or an error once the sender is gone.  The receiver
\* is a temporary of the caller and is dropped with the result.
Recv(t) ==
    /\ call[t] = "hold"
    /\ LET c == ch[t]
       IN  /\ chans[c].buf # <<>> \/ ~chans[c].tx
           /\ chans' = IF chans[c].buf # <<>>
                       THEN [chans EXCEPT ![c].buf = Tail(@),
                                          ![c].got = Append(@, Head(chans[c].buf)),
                                          ![c].rx = FALSE]
                       ELSE [chans EXCEPT ![c].rx = FALSE]
    /\ call' = [call EXCEPT ![t] = "none"]
    /\ ch' = [ch EXCEPT ![t] = 0]

\* ------------------------------------------------------------------------
\* The node: handler and worker in the shape of gcount
\* ------------------------------------------------------------------------
\* gcount cas_db: the cas request sent to seq-kv under a fresh id
CasMsg(id) ==
    Message(NodeId, Service,
        Body(id, None, [variant |-> "KvCas", key |-> NodeId, from |-> 0,
                        to |-> 0, create_if_not_exists |-> TRUE]))

\* cas_db / read_db on thread t: seq.fetch_add(1), then network.rpc
NodeRpc(t) ==
    /\ RpcRegister(t, CasMsg(seq))
    /\ seq' = seq + 1

\* json_rx exists from process_input's start to its return
JsonRxOpen == pcMain \in {"recv", "handle", "reply"}

\* the Receiver<String> of run_internal, moved into the dispatcher closure
RxOpen == dpc \notin {"done", "panicked"}

\* handle_read: the handler issues an rpc to seq-kv; when rpc fails the
\* cached value is used and the handler goes on to its reply
HandlerRpc ==
    /\ ~exited
    /\ pcMain = "handle"
    /\ cur.body.payload.variant = "Read"
    /\ NodeRpc("main")
    /\ pcMain' = IF call'["main"] = "rpc" THEN "handle" ELSE "reply"
    /\ UNCHANGED <<lines, rdr, rx, init, dpc, json_ch, cur, wpc, wrpcs,
                       outbound, spc, stdout_ch, wtr, written, exited,
                       enq, dispatched, handled, returned, herrs, nets,
                       handles, nhist, rcall, node, sq, kf, gc, bc>>

HandlerRpcSend ==
    /\ ~exited
    /\ pcMain = "handle"
    /\ RpcSend("main")
    /\ pcMain' = IF SendOk THEN "handle" ELSE "reply"
    /\ UNCHANGED <<lines, rdr, rx, init, dpc, json_ch, cur, wpc, wrpcs, seq,
                       callbacks, spc, stdout_ch, wtr, written, exited,
                       dispatched, handled, returned, herrs, nets,
                       handles, nhist, rcall, node, sq, kf, gc, bc>>

\* the handler's blocking recv on the receiver rpc returned
HandlerRecv ==
    /\ ~exited
    /\ pcMain = "handle"
    /\ Recv("main")
    /\ pcMain' = "reply"
    /\ UNCHANGED <<lines, rdr, rx, init, dpc, json_ch, cur, wpc, wrpcs, seq,
                       rpcm, ret, lock, callbacks, outbound, spc,
                       stdout_ch, wtr, written, exited, enq, dispatched,
                       handled, returned, herrs, nets, handles, nhist,
                       rcall, node, sq, kf, gc, bc>>

\* handle_add and the end of handle_read: network.send(msg.into_reply(..))
\* is the handler's result; an error ends process_input through the ?
HandlerReply ==
    /\ ~exited
    /\ \/ pcMain = "handle" /\ cur.body.payload.variant = "Add"
       \/ pcMain = "reply"
    /\ Send(into_reply(cur, IF cur.body.payload.variant = "Add"
                            THEN [variant |-> "AddOk"]
                            ELSE [variant |-> "ReadOk", value |-> 0]))
    /\ pcMain' = IF SendOk THEN "recv" ELSE "shutdown"
    /\ cur' = NoMsg
    /\ returned' = returned + 1
    /\ herrs' = IF SendOk THEN herrs ELSE herrs + 1
    /\ UNCHANGED <<lines, rdr, rx, init, dpc, json_ch, wpc, wrpcs, seq, call,
                       rpcm, ch, ret, lock, callbacks, chans, spc,
                       stdout_ch, wtr, written, exited, dispatched,
                       handled, nets, handles, nhist, rcall, node, sq, kf,
                       gc, bc>>

\* handle_message on any other payload returns without a reply: Ok(()) as
\* in gcount, or an error as in the echo node.  The ? in process_input's
\* loop makes an error the result of process_input.
HandlerReturn(ok) ==
    /\ ~exited
    /\ pcMain = "handle"
    /\ cur.body.payload.variant \notin {"Add", "Read"}
    /\ pcMain' = IF ok THEN "recv" ELSE "shutdown"
    /\ cur' = NoMsg
    /\ returned' = returned + 1
    /\ herrs' = IF ok THEN herrs ELSE herrs + 1
    /\ UNCHANGED <<lines, rdr, rx, init, dpc, json_ch, wpc, wrpcs, seq, call,
                       rpcm, ch, ret, lock, callbacks, chans, outbound,
                       spc, stdout_ch, wtr, written, exited, enq,
                       dispatched, handled, nets, handles, nhist, rcall,
                       node, sq, kf, gc, bc>>

\* the worker thread issues an rpc (cas_db)
WorkerRpc ==
    /\ ~exited
    /\ wpc = "run"
    /\ wrpcs < MaxWorkerRpc
    /\ NodeRpc("worker")
    /\ wrpcs' = wrpcs + 1
    /\ UNCHANGED <<lines, rdr, rx, pcMain, init, dpc, json_ch, cur, wpc,
                       outbound, spc, stdout_ch, wtr, written, exited,
                       enq, dispatched, handled, returned, herrs, nets,
                       handles, nhist, rcall, node, sq, kf, gc, bc>>

WorkerRpcSend ==
    /\ ~exited
    /\ RpcSend("worker")
    /\ UNCHANGED <<lines, rdr, rx, pcMain, init, dpc, json_ch, cur, wpc,
                       wrpcs, seq, callbacks, spc, stdout_ch, wtr,
                       written, exited, dispatched, handled, returned,
                       herrs, nets, handles, nhist, rcall, node, sq, kf,
                       gc, bc>>

WorkerRecv ==
    /\ ~exited
    /\ Recv("worker")
    /\ UNCHANGED <<lines, rdr, rx, pcMain, init, dpc, json_ch, cur, wpc,
                       wrpcs, seq, rpcm, ret, lock, callbacks, outbound,
                       spc, stdout_ch, wtr, written, exited, enq,
                       dispatched, handled, returned, herrs, nets,
                       handles, nhist, rcall, node, sq, kf, gc, bc>>

\* a node that breaks the rule of fresh ids: the worker calls rpc with an
\* id the node has drawn before
WorkerRpcReuse ==
    /\ ~exited
    /\ wpc = "run"
    /\ wrpcs < MaxWorkerRpc
    /\ \E k \in SeqStart..(seq - 1) : RpcRegister("worker", CasMsg(k))
    /\ wrpcs' = wrpcs + 1
    /\ UNCHANGED <<lines, rdr, rx, pcMain, init, dpc, json_ch, cur, wpc, seq,
                       outbound, spc, stdout_ch, wtr, written, exited,
                       enq, dispatched, handled, returned, herrs, nets,
                       handles, nhist, rcall, node, sq, kf, gc, bc>>

\* a node that calls rpc with a message that has no msg_id
WorkerRpcNoId ==
    /\ ~exited
    /\ wpc = "run"
    /\ wrpcs < MaxWorkerRpc
    /\ RpcRegister("worker", CasMsg(None))
    /\ wrpcs' = wrpcs + 1
    /\ UNCHANGED <<lines, rdr, rx, pcMain, init, dpc, json_ch, cur, wpc, seq,
                       outbound, spc, stdout_ch, wtr, written, exited,
                       enq, dispatched, handled, returned, herrs, nets,
                       handles, nhist, rcall, node, sq, kf, gc, bc>>

\* a receiver whose drop takes the rpc's entry out of the registry
WorkerDropUnregisters ==
    /\ ~exited
    /\ call["worker"] = "hold"
    /\ chans' = [chans EXCEPT ![ch["worker"]].rx = FALSE]
    /\ callbacks' = Remove(callbacks, chans[ch["worker"]].k)
    /\ call' = [call EXCEPT !["worker"] = "none"]
    /\ ch' = [ch EXCEPT !["worker"] = 0]
    /\ UNCHANGED <<lines, rdr, rx, pcMain, init, dpc, json_ch, cur, wpc,
                       wrpcs, seq, rpcm, ret, lock, outbound, spc,
                       stdout_ch, wtr, written, exited, enq, dispatched,
                       handled, returned, herrs, nets, handles, nhist,
                       rcall, node, sq, kf, gc, bc>>

\* a caller that gives up on a reply and drops the receiver without
\* receiving.  No node of the repository does: each rpc is followed by a
\* blocking recv.  The step belongs to DropSpec only.
WorkerDrop ==
    /\ ~exited
    /\ call["worker"] = "hold"
    /\ chans' = [chans EXCEPT ![ch["worker"]].rx = FALSE]
    /\ call' = [call EXCEPT !["worker"] = "none"]
    /\ ch' = [ch EXCEPT !["worker"] = 0]
    /\ UNCHANGED <<lines, rdr, rx, pcMain, init, dpc, json_ch, cur, wpc,
                       wrpcs, seq, rpcm, ret, lock, callbacks, outbound,
                       spc, stdout_ch, wtr, written, exited, enq,
                       dispatched, handled, returned, herrs, nets,
                       handles, nhist, rcall, node, sq, kf, gc, bc>>

\* ------------------------------------------------------------------------
\* Runtime (runtime.rs)
\* ------------------------------------------------------------------------
\* msg_ids of the rpc requests this node has written to stdout
WrittenRequests ==
    {written[j].body.msg_id :
        j \in {i \in 1..Len(written) : written[i].dest = Service}}

\* what Maelstrom can have put on stdin as the i-th line: the init first,
\* then client requests, the EOI sentinel, and seq-kv's replies to requests
\* it has seen.  The harness numbers its messages itself.
HarnessLines(i) ==
    IF i = 1 THEN {InitLine(i)}
    ELSE {AddLine(i), ReadLine(i), EOI}
         \cup {ReplyLine(i, k) : k \in WrittenRequests}

\* an error body from seq-kv in answer to request k
ErrorLine(i, k) ==
    to_string(Message(Service, NodeId,
                      Body(i, k, [variant |-> "Error", code |-> 22,
                                  text |-> "precondition failed"])))

\* stdin when seq-kv may answer a request with an error, and when an error
\* may come that answers nothing
ErrorLines(i) ==
    IF i = 1 THEN {InitLine(i)}
    ELSE HarnessLines(i) \cup {ErrorLine(i, k) : k \in WrittenRequests}
                         \cup {ErrorLine(i, None)}

\* the reader thread of run on that stdin
ReaderErr(max) ==
    /\ ~exited
    /\ rdr = "run"
    /\ Len(lines) < max
    /\ \E line \in ErrorLines(Len(lines) + 1) :
           /\ lines' = Append(lines, line)
           /\ IF RxOpen
              THEN rx' = Append(rx, line) /\ UNCHANGED rdr
              ELSE rdr' = "panicked" /\ UNCHANGED rx
    /\ UNCHANGED <<pcMain, init, dpc, json_ch, cur, wpc, wrpcs, seq, call,
                       rpcm, ch, ret, lock, callbacks, chans, outbound,
                       spc, stdout_ch, wtr, written, exited, enq,
                       dispatched, handled, returned, herrs, nets,
                       handles, nhist, rcall, node, sq, kf, gc, bc>>

\* a message from a client that names request k in its in_reply_to
StrayLine(i, k) ==
    to_string(Message(Client, NodeId, Body(i, k, [variant |-> "KvCasOk"])))

\* the reader thread of run when any peer may send a message that
\* carries an in_reply_to
ReaderStray(max) ==
    /\ ~exited
    /\ rdr = "run"
    /\ Len(lines) < max
    /\ \E line \in HarnessLines(Len(lines) + 1)
                  \cup {StrayLine(Len(lines) + 1, k) : k \in WrittenRequests} :
           /\ lines' = Append(lines, line)
           /\ IF RxOpen
              THEN rx' = Append(rx, line) /\ UNCHANGED rdr
              ELSE rdr' = "panicked" /\ UNCHANGED rx
    /\ UNCHANGED <<pcMain, init, dpc, json_ch, cur, wpc, wrpcs, seq, call,
                       rpcm, ch, ret, lock, callbacks, chans, outbound,
                       spc, stdout_ch, wtr, written, exited, enq,
                       dispatched, handled, returned, herrs, nets,
                       handles, nhist, rcall, node, sq, kf, gc, bc>>

\* run: the reader thread reads the next stdin line and sends it on
\* stdin_tx; the unwrap panics once the receiving end is gone
Reader(max) ==
    /\ ~exited
    /\ rdr = "run"
    /\ Len(lines) < max
    /\ \E line \in HarnessLines(Len(lines) + 1) :
           /\ lines' = Append(lines, line)
           /\ IF RxOpen
              THEN rx' = Append(rx, line) /\ UNCHANGED rdr
              ELSE rdr' = "panicked" /\ UNCHANGED rx
    /\ UNCHANGED <<pcMain, init, dpc, json_ch, cur, wpc, wrpcs, seq, call,
                       rpcm, ch, ret, lock, callbacks, chans, outbound,
                       spc, stdout_ch, wtr, written, exited, enq,
                       dispatched, handled, returned, herrs, nets,
                       handles, nhist, rcall, node, sq, kf, gc, bc>>

\* any stdin: the first line need not be an init, and a line that is not a
\* message may come at any point
AnyLines(i) ==
    IF i = 1 THEN {InitLine(i), InitOkLine(i), Garbage, EOI}
    ELSE HarnessLines(i) \cup {Garbage}

\* the reader thread of run on any stdin
ReaderAny(max) ==
    /\ ~exited
    /\ rdr = "run"
    /\ Len(lines) < max
    /\ \E line \in AnyLines(Len(lines) + 1) :
           /\ lines' = Append(lines, line)
           /\ IF RxOpen
              THEN rx' = Append(rx, line) /\ UNCHANGED rdr
              ELSE rdr' = "panicked" /\ UNCHANGED rx
    /\ UNCHANGED <<pcMain, init, dpc, json_ch, cur, wpc, wrpcs, seq, call,
                       rpcm, ch, ret, lock, callbacks, chans, outbound,
                       spc, stdout_ch, wtr, written, exited, enq,
                       dispatched, handled, returned, herrs, nets,
                       handles, nhist, rcall, node, sq, kf, gc, bc>>

\* run: stdin is at end of file, `for line in stdin` ends and the reader
\* thread returns, which drops stdin_tx
ReaderEof ==
    /\ ~exited
    /\ rdr = "run"
    /\ rdr' = "eof"
    /\ UNCHANGED <<lines, rx, pcMain, init, dpc, json_ch, cur, wpc, wrpcs,
                       seq, call, rpcm, ch, ret, lock, callbacks, chans,
                       outbound, spc, stdout_ch, wtr, written, exited,
                       enq, dispatched, handled, returned, herrs, nets,
                       handles, nhist, rcall, node, sq, kf, gc, bc>>

\* stdin_tx is gone: the reader thread has ended, normally or in a panic
StdinClosed == rdr \in {"eof", "panicked"}

\* run_internal that takes any message of the Init enum for the init
RecvInitAnyPayload ==
    /\ ~exited
    /\ pcMain = "recv_init"
    /\ rx # <<>>
    /\ rx' = Tail(rx)
    /\ LET m == from_str(Head(rx), InitVariants)
       IN  IF m = ParseError
           THEN pcMain' = "failed" /\ exited' = TRUE /\ UNCHANGED init
           ELSE pcMain' = "from_init" /\ init' = m /\ UNCHANGED exited
    /\ UNCHANGED <<lines, rdr, dpc, json_ch, cur, wpc, wrpcs, seq, call,
                       rpcm, ch, ret, lock, callbacks, chans, outbound,
                       spc, stdout_ch, wtr, written, enq, dispatched,
                       handled, returned, herrs, nets, handles, nhist,
                       rcall, node, sq, kf, gc, bc>>

\* run_internal: receive and parse the first line; anything but an init
\* message makes run_internal, and with it run, return an error
RecvInit ==
    /\ ~exited
    /\ pcMain = "recv_init"
    /\ rx # <<>>
    /\ rx' = Tail(rx)
    /\ LET m == from_str(Head(rx), InitVariants)
       IN  IF m = ParseError \/ m.body.payload.variant # "Init"
           THEN pcMain' = "failed" /\ exited' = TRUE /\ UNCHANGED init
           ELSE pcMain' = "from_init" /\ init' = m /\ UNCHANGED exited
    /\ UNCHANGED <<lines, rdr, dpc, json_ch, cur, wpc, wrpcs, seq, call,
                       rpcm, ch, ret, lock, callbacks, chans, outbound,
                       spc, stdout_ch, wtr, written, enq, dispatched,
                       handled, returned, herrs, nets, handles, nhist,
                       rcall, node, sq, kf, gc, bc>>

\* run_internal: rx.recv()? fails when stdin ended before any line came
RecvInitEof ==
    /\ ~exited
    /\ pcMain = "recv_init"
    /\ rx = <<>>
    /\ StdinClosed
    /\ pcMain' = "failed"
    /\ exited' = TRUE
    /\ UNCHANGED <<lines, rdr, rx, init, dpc, json_ch, cur, wpc, wrpcs, seq,
                       call, rpcm, ch, ret, lock, callbacks, chans,
                       outbound, spc, stdout_ch, wtr, written, enq,
                       dispatched, handled, returned, herrs, nets,
                       handles, nhist, rcall, node, sq, kf, gc, bc>>

\* a message a node may send from inside from_init
HelloMsg ==
    Message(NodeId, Service, Body(None, None, [variant |-> "AddOk"]))

\* run_internal: Network::new() and N::from_init, which starts the worker
\* thread (gcount) and may already send on the facade
FromInit ==
    /\ ~exited
    /\ pcMain = "from_init"
    /\ pcMain' = "spawn"
    /\ wpc' = "run"
    /\ \/ Send(HelloMsg)
       \/ UNCHANGED <<outbound, enq>>
    /\ UNCHANGED <<lines, rdr, rx, init, dpc, json_ch, cur, wrpcs, seq, call,
                       rpcm, ch, ret, lock, callbacks, chans, spc,
                       stdout_ch, wtr, written, exited, dispatched,
                       handled, returned, herrs, nets, handles, nhist,
                       rcall, node, sq, kf, gc, bc>>

\* run_internal: process_output spawns the outbound serializer, then
\* process_input spawns the dispatcher and enters the handler loop
Spawn ==
    /\ ~exited
    /\ pcMain = "spawn"
    /\ pcMain' = "recv"
    /\ spc' = "init_ok"
    /\ dpc' = "run"
    /\ UNCHANGED <<lines, rdr, rx, init, json_ch, cur, wpc, wrpcs, seq, call,
                       rpcm, ch, ret, lock, callbacks, chans, outbound,
                       stdout_ch, wtr, written, exited, enq, dispatched,
                       handled, returned, herrs, nets, handles, nhist,
                       rcall, node, sq, kf, gc, bc>>

\* stdout_rx exists as long as the writer thread runs
StdoutRxOpen == wtr = "run"

\* a serializer that empties the outbound channel before it sends init_ok
SerInitOkAfterBacklog ==
    /\ ~exited
    /\ spc = "init_ok"
    /\ IF outbound # <<>>
       THEN /\ outbound' = Tail(outbound)
            /\ stdout_ch' = Append(stdout_ch, to_string(Head(outbound)))
            /\ UNCHANGED spc
       ELSE /\ spc' = "loop"
            /\ stdout_ch' = Append(stdout_ch,
                       to_string(into_reply(init, [variant |-> "InitOk"])))
            /\ UNCHANGED outbound
    /\ UNCHANGED <<lines, rdr, rx, pcMain, init, dpc, json_ch, cur, wpc,
                       wrpcs, seq, call, rpcm, ch, ret, lock, callbacks,
                       chans, wtr, written, exited, enq, dispatched,
                       handled, returned, herrs, nets, handles, nhist,
                       rcall, node, sq, kf, gc, bc>>

\* process_output: the serializer first sends the init_ok
SerInitOk ==
    /\ ~exited
    /\ spc = "init_ok"
    /\ IF StdoutRxOpen
       THEN /\ spc' = "loop"
            /\ stdout_ch' = Append(stdout_ch,
                       to_string(into_reply(init, [variant |-> "InitOk"])))
            /\ UNCHANGED outbound
       ELSE /\ spc' = "ended"
            /\ outbound' = <<>>
            /\ UNCHANGED stdout_ch
    /\ UNCHANGED <<lines, rdr, rx, pcMain, init, dpc, json_ch, cur, wpc,
                       wrpcs, seq, call, rpcm, ch, ret, lock, callbacks,
                       chans, wtr, written, exited, enq, dispatched,
                       handled, returned, herrs, nets, handles, nhist,
                       rcall, node, sq, kf, gc, bc>>

\* a serializer loop that forwards the newest outbound message first
SerForwardNewest ==
    /\ ~exited
    /\ spc = "loop"
    /\ outbound # <<>>
    /\ outbound' = SubSeq(outbound, 1, Len(outbound) - 1)
    /\ stdout_ch' = Append(stdout_ch, to_string(outbound[Len(outbound)]))
    /\ UNCHANGED <<lines, rdr, rx, pcMain, init, dpc, json_ch, cur, wpc,
                       wrpcs, seq, call, rpcm, ch, ret, lock, callbacks,
                       chans, spc, wtr, written, exited, enq, dispatched,
                       handled, returned, herrs, nets, handles, nhist,
                       rcall, node, sq, kf, gc, bc>>

\* process_output: the loop forwards the next outbound message as JSON
SerForward ==
    /\ ~exited
    /\ spc = "loop"
    /\ outbound # <<>>
    /\ IF StdoutRxOpen
       THEN /\ outbound' = Tail(outbound)
            /\ stdout_ch' = Append(stdout_ch, to_string(Head(outbound)))
            /\ UNCHANGED spc
       ELSE /\ spc' = "ended"
            /\ outbound' = <<>>
            /\ UNCHANGED stdout_ch
    /\ UNCHANGED <<lines, rdr, rx, pcMain, init, dpc, json_ch, cur, wpc,
                       wrpcs, seq, call, rpcm, ch, ret, lock, callbacks,
                       chans, wtr, written, exited, enq, dispatched,
                       handled, returned, herrs, nets, handles, nhist,
                       rcall, node, sq, kf, gc, bc>>

\* run: the writer thread prints each line it receives
Writer ==
    /\ ~exited
    /\ wtr = "run"
    /\ stdout_ch # <<>>
    /\ stdout_ch' = Tail(stdout_ch)
    /\ written' = Append(written, Head(stdout_ch))
    /\ UNCHANGED <<lines, rdr, rx, pcMain, init, dpc, json_ch, cur, wpc,
                       wrpcs, seq, call, rpcm, ch, ret, lock, callbacks,
                       chans, outbound, spc, wtr, exited, enq, dispatched,
                       handled, returned, herrs, nets, handles, nhist,
                       rcall, node, sq, kf, gc, bc>>

\* run: writeln! fails (stdout is closed) and the unwrap panics the writer
\* thread; stdout_rx is dropped with what it still holds
WriterFail ==
    /\ ~exited
    /\ wtr = "run"
    /\ stdout_ch # <<>>
    /\ wtr' = "panicked"
    /\ stdout_ch' = <<>>
    /\ UNCHANGED <<lines, rdr, rx, pcMain, init, dpc, json_ch, cur, wpc,
                       wrpcs, seq, call, rpcm, ch, ret, lock, callbacks,
                       chans, outbound, spc, written, exited, enq,
                       dispatched, handled, returned, herrs, nets,
                       handles, nhist, rcall, node, sq, kf, gc, bc>>

\* a hand-over that succeeds only while the handler loop is waiting in recv
\* and drops the message otherwise
JsonSendIfIdle(q, m) == IF pcMain = "recv" THEN Append(q, m) ELSE q

\* process_input: json_tx.send(message) on the unbounded channel() between
\* the dispatcher and the handler loop
JsonSend(q, m) == Append(q, m)

\* a receive that takes the newest message
JsonNextNewest(q) == q[Len(q)]

\* process_input: what `for message in json_rx` yields next
JsonNext(q) == Head(q)

\* a receive that leaves the message in the channel
JsonRestKeep(q) == q

\* process_input: the channel after the loop has taken its next message
JsonRest(q) == Tail(q)

\* lines are routed only between two handler calls, by the thread that
\* runs the handler loop
DispatcherRunsInHandlerLoop == dpc = "run" /\ pcMain = "recv"

\* process_input: the dispatcher is a thread of its own, spawned before the
\* handler loop starts; it runs whatever the handler thread is doing
DispatcherRuns == dpc = "run"

\* history only: message m is handed to the handler loop while
\* handle_message is blocked in the recv of its rpc
DuringWait(m) ==
    /\ pcMain = "handle"
    /\ call["main"] = "hold"
    /\ ~Consumed(callbacks, chans, m)

\* the Payload type parameter of the runtime: the node's payload enum
NodeVariants == IF node = "echo" THEN EchoVariants ELSE PayloadVariants

\* a dispatcher that skips the EOI line and goes on with the next line
AfterEOISkip == "run"

\* process_input: `if line == EOI { break }` ends the dispatcher thread
AfterEOI == "done"

\* process_input, the spawned thread: one iteration of `for line in rx`.
\* EOI breaks the loop, an unparseable line panics in unwrap, any other
\* line goes through check_callback (under the mutex) and, if it is
\* returned, to json_tx, whose unwrap panics when json_rx is gone.
Dispatch ==
    /\ ~exited
    /\ DispatcherRuns
    /\ rx # <<>>
    /\ rx' = Tail(rx)
    /\ LET line == Head(rx)
           m == from_str(line, NodeVariants)
       IN  IF line = EOI
           THEN /\ dpc' = AfterEOI
                /\ UNCHANGED <<json_ch, callbacks, chans, dispatched>>
           ELSE IF m = ParseError
           THEN /\ dpc' = "panicked"
                /\ UNCHANGED <<json_ch, callbacks, chans, dispatched>>
           ELSE /\ lock = "free"
                /\ callbacks' = CheckCallbacks(callbacks, m)
                /\ chans' = CheckChans(callbacks, chans, m)
                /\ dispatched' = Append(dispatched,
                       [msg |-> m, consumed |-> Consumed(callbacks, chans, m),
                        inv |-> IF DuringWait(m) THEN Len(handled) ELSE 0,
                        waiting |-> IF DuringWait(m) THEN Len(json_ch) ELSE 0])
                /\ IF Consumed(callbacks, chans, m)
                   THEN UNCHANGED <<json_ch, dpc>>
                   ELSE IF JsonRxOpen
                   THEN json_ch' = JsonSend(json_ch, m) /\ UNCHANGED dpc
                   ELSE dpc' = "panicked" /\ UNCHANGED json_ch
    /\ UNCHANGED <<lines, rdr, pcMain, init, cur, wpc, wrpcs, seq, call,
                       rpcm, ch, ret, lock, outbound, spc, stdout_ch, wtr,
                       written, exited, enq, handled, returned, herrs,
                       nets, handles, nhist, rcall, node, sq, kf, gc, bc>>

\* process_input, the spawned thread: `for line in rx` ends when stdin_tx
\* is gone and no line is left
DispatchEnd ==
    /\ ~exited
    /\ DispatcherRuns
    /\ rx = <<>>
    /\ StdinClosed
    /\ dpc' = "done"
    /\ UNCHANGED <<lines, rdr, rx, pcMain, init, json_ch, cur, wpc, wrpcs,
                       seq, call, rpcm, ch, ret, lock, callbacks, chans,
                       outbound, spc, stdout_ch, wtr, written, exited,
                       enq, dispatched, handled, returned, herrs, nets,
                       handles, nhist, rcall, node, sq, kf, gc, bc>>

\* process_input, the main thread: `for message in json_rx` takes the next
\* message and calls node.handle_message on it
HandlerTake ==
    /\ ~exited
    /\ pcMain = "recv"
    /\ json_ch # <<>>
    /\ json_ch' = JsonRest(json_ch)
    /\ cur' = JsonNext(json_ch)
    /\ handled' = Append(handled, JsonNext(json_ch))
    /\ pcMain' = "handle"
    /\ UNCHANGED <<lines, rdr, rx, init, dpc, wpc, wrpcs, seq, call, rpcm,
                       ch, ret, lock, callbacks, chans, outbound, spc,
                       stdout_ch, wtr, written, exited, enq, dispatched,
                       returned, herrs, nets, handles, nhist, rcall, node,
                       sq, kf, gc, bc>>

\* process_input: the loop ends when json_tx is gone and the channel is
\* empty; process_input returns Ok
HandlerEnd ==
    /\ ~exited
    /\ pcMain = "recv"
    /\ json_ch = <<>>
    /\ dpc \in {"done", "panicked"}
    /\ pcMain' = "shutdown"
    /\ UNCHANGED <<lines, rdr, rx, init, dpc, json_ch, cur, wpc, wrpcs, seq,
                       call, rpcm, ch, ret, lock, callbacks, chans,
                       outbound, spc, stdout_ch, wtr, written, exited,
                       enq, dispatched, handled, returned, herrs, nets,
                       handles, nhist, rcall, node, sq, kf, gc, bc>>

\* run_internal after process_input: "Shutting down..." and todo!(), which
\* panics the main thread and ends the process
MainPanic ==
    /\ ~exited
    /\ pcMain = "shutdown"
    /\ pcMain' = "panicked"
    /\ exited' = TRUE
    /\ UNCHANGED <<lines, rdr, rx, init, dpc, json_ch, cur, wpc, wrpcs, seq,
                       call, rpcm, ch, ret, lock, callbacks, chans,
                       outbound, spc, stdout_ch, wtr, written, enq,
                       dispatched, handled, returned, herrs, nets,
                       handles, nhist, rcall, node, sq, kf, gc, bc>>

\* ------------------------------------------------------------------------
\* Specifications
\* ------------------------------------------------------------------------
Next ==
    \/ Reader(MaxLines)
    \/ RecvInit
    \/ FromInit
    \/ Spawn
    \/ SerInitOk
    \/ SerForward
    \/ Writer
    \/ Dispatch
    \/ HandlerTake
    \/ HandlerRpc
    \/ HandlerRpcSend
    \/ HandlerRecv
    \/ HandlerReply
    \/ HandlerReturn(TRUE)
    \/ HandlerReturn(FALSE)
    \/ HandlerEnd
    \/ MainPanic
    \/ WorkerRpc
    \/ WorkerRpcSend
    \/ WorkerRecv

Spec == Init /\ [][Next]_vars

\* the program with a node whose worker may also abandon its rpcs
NextDrop ==
    \/ Reader(MaxLinesDrop)
    \/ RecvInit
    \/ FromInit
    \/ Spawn
    \/ SerInitOk
    \/ SerForward
    \/ Writer
    \/ Dispatch
    \/ HandlerTake
    \/ HandlerRpc
    \/ HandlerRpcSend
    \/ HandlerRecv
    \/ HandlerReply
    \/ HandlerReturn(TRUE)
    \/ HandlerReturn(FALSE)
    \/ HandlerEnd
    \/ MainPanic
    \/ WorkerRpc
    \/ WorkerRpcSend
    \/ WorkerRecv
    \/ WorkerDrop

DropSpec == Init /\ [][NextDrop]_vars

\* the program with a stdout that may fail
NextClosed ==
    \/ Reader(MaxLinesDrop)
    \/ RecvInit
    \/ FromInit
    \/ Spawn
    \/ SerInitOk
    \/ SerForward
    \/ Writer
    \/ WriterFail
    \/ Dispatch
    \/ HandlerTake
    \/ HandlerRpc
    \/ HandlerRpcSend
    \/ HandlerRecv
    \/ HandlerReply
    \/ HandlerReturn(TRUE)
    \/ HandlerReturn(FALSE)
    \/ HandlerEnd
    \/ MainPanic
    \/ WorkerRpc
    \/ WorkerRpcSend
    \/ WorkerRecv

ClosedSpec == Init /\ [][NextClosed]_vars

\* the program when seq-kv may answer with errors
NextError ==
    \/ ReaderErr(MaxLinesDrop)
    \/ RecvInit
    \/ FromInit
    \/ Spawn
    \/ SerInitOk
    \/ SerForward
    \/ Writer
    \/ Dispatch
    \/ HandlerTake
    \/ HandlerRpc
    \/ HandlerRpcSend
    \/ HandlerRecv
    \/ HandlerReply
    \/ HandlerReturn(TRUE)
    \/ HandlerReturn(FALSE)
    \/ HandlerEnd
    \/ MainPanic
    \/ WorkerRpc
    \/ WorkerRpcSend
    \/ WorkerRecv

ErrorSpec == Init /\ [][NextError]_vars

\* the program when peers other than seq-kv send messages with in_reply_to
NextStray ==
    \/ ReaderStray(MaxLinesDrop)
    \/ RecvInit
    \/ FromInit
    \/ Spawn
    \/ SerInitOk
    \/ SerForward
    \/ Writer
    \/ Dispatch
    \/ HandlerTake
    \/ HandlerRpc
    \/ HandlerRpcSend
    \/ HandlerRecv
    \/ HandlerReply
    \/ HandlerReturn(TRUE)
    \/ HandlerReturn(FALSE)
    \/ HandlerEnd
    \/ MainPanic
    \/ WorkerRpc
    \/ WorkerRpcSend
    \/ WorkerRecv

StraySpec == Init /\ [][NextStray]_vars

\* the program with a node that misuses rpc
NextMisuse ==
    \/ Reader(MaxLinesDrop)
    \/ RecvInit
    \/ FromInit
    \/ Spawn
    \/ SerInitOk
    \/ SerForward
    \/ Writer
    \/ Dispatch
    \/ HandlerTake
    \/ HandlerRpc
    \/ HandlerRpcSend
    \/ HandlerRecv
    \/ HandlerReply
    \/ HandlerReturn(TRUE)
    \/ HandlerReturn(FALSE)
    \/ HandlerEnd
    \/ MainPanic
    \/ WorkerRpc
    \/ WorkerRpcSend
    \/ WorkerRecv
    \/ WorkerRpcReuse
    \/ WorkerRpcNoId

MisuseSpec == Init /\ [][NextMisuse]_vars

\* the program on any stdin, end of file included
NextInput ==
    \/ ReaderAny(MaxLines)
    \/ ReaderEof
    \/ RecvInit
    \/ RecvInitEof
    \/ FromInit
    \/ Spawn
    \/ SerInitOk
    \/ SerForward
    \/ Writer
    \/ Dispatch
    \/ DispatchEnd
    \/ HandlerTake
    \/ HandlerRpc
    \/ HandlerRpcSend
    \/ HandlerRecv
    \/ HandlerReply
    \/ HandlerReturn(TRUE)
    \/ HandlerReturn(FALSE)
    \/ HandlerEnd
    \/ MainPanic
    \/ WorkerRpc
    \/ WorkerRpcSend
    \/ WorkerRecv

InputSpec == Init /\ [][NextInput]_vars

\* the same program on a shorter input, for the properties of progress
NextLive ==
    \/ Reader(MaxLinesLive)
    \/ RecvInit
    \/ FromInit
    \/ Spawn
    \/ SerInitOk
    \/ SerForward
    \/ Writer
    \/ Dispatch
    \/ HandlerTake
    \/ HandlerRpc
    \/ HandlerRpcSend
    \/ HandlerRecv
    \/ HandlerReply
    \/ HandlerReturn(TRUE)
    \/ HandlerReturn(FALSE)
    \/ HandlerEnd
    \/ MainPanic
    \/ WorkerRpc
    \/ WorkerRpcSend
    \/ WorkerRecv

\* the threads are operating-system threads: a thread that can take its
\* next step is eventually scheduled, and a thread inside Network::rpc
\* leaves the mutex.  Nothing is assumed of the input or of what the node
\* chooses to do.
Fairness ==
    /\ WF_vars(Dispatch)
    /\ WF_vars(HandlerRpcSend)
    /\ WF_vars(HandlerRecv)
    /\ WF_vars(WorkerRpcSend)

FairSpec == Init /\ [][NextLive]_vars /\ Fairness

\* ------------------------------------------------------------------------
\* The facade on its own (network.rs, as tests::test_pingpong uses it):
\* several Network::new() calls, clones of the values they return, and
\* send, rpc and check_callback through any of the values
\* ------------------------------------------------------------------------
PingMsg(k) == Message("n1", "n2", Body(k, None, [variant |-> "Ping"]))

PongMsg(k) == Message("n2", "n1", Body(None, k, [variant |-> "Pong"]))

\* the msg_id the rpcs use, and the messages handed to check_callback: a
\* reply to that id and a message without in_reply_to
NetId == 1

NetInputs == {PongMsg(NetId), PingMsg(NetId)}

\* what Network::new() builds: an empty registry and an open channel
NewNet == [callbacks |-> <<>>, chans |-> <<>>, outbound |-> <<>>]

\* Network::new(): a Network value over a fresh registry and a fresh
\* outbound channel, whose receive endpoint is returned with it
NetNew ==
    /\ Len(nets) < MaxNets
    /\ Len(handles) < MaxHandles
    /\ nets' = Append(nets, NewNet)
    /\ handles' = Append(handles, Len(nets) + 1)
    /\ nhist' = [nhist EXCEPT !.origin = Append(@, Len(nets) + 1),
                              !.sent = Append(@, <<>>),
                              !.recvd = Append(@, <<>>)]
    /\ UNCHANGED <<lines, rdr, rx, pcMain, init, dpc, json_ch, cur, wpc,
                       wrpcs, seq, call, rpcm, ch, ret, lock, callbacks,
                       chans, outbound, spc, stdout_ch, wtr, written,
                       exited, enq, dispatched, handled, returned, herrs,
                       rcall, node, sq, kf, gc, bc>>

\* a clone that copies the registry and opens a channel of its own
NetCloneDetached(h) ==
    /\ Len(handles) < MaxHandles
    /\ Len(nets) < MaxNets
    /\ nets' = Append(nets, [nets[handles[h]] EXCEPT !.outbound = <<>>])
    /\ handles' = Append(handles, Len(nets) + 1)
    /\ nhist' = [nhist EXCEPT !.origin = Append(@, nhist.origin[h]),
                              !.sent = Append(@, <<>>),
                              !.recvd = Append(@, <<>>)]
    /\ UNCHANGED <<lines, rdr, rx, pcMain, init, dpc, json_ch, cur, wpc,
                       wrpcs, seq, call, rpcm, ch, ret, lock, callbacks,
                       chans, outbound, spc, stdout_ch, wtr, written,
                       exited, enq, dispatched, handled, returned, herrs,
                       rcall, node, sq, kf, gc, bc>>

\* derive(Clone) on Network: the Arc of the registry and the Sender are
\* cloned, so the new value refers to the same registry and channel
NetClone(h) ==
    /\ Len(handles) < MaxHandles
    /\ handles' = Append(handles, handles[h])
    /\ nhist' = [nhist EXCEPT !.origin = Append(@, nhist.origin[h])]
    /\ UNCHANGED <<lines, rdr, rx, pcMain, init, dpc, json_ch, cur, wpc,
                       wrpcs, seq, call, rpcm, ch, ret, lock, callbacks,
                       chans, outbound, spc, stdout_ch, wtr, written,
                       exited, enq, dispatched, handled, returned, herrs,
                       nets, rcall, node, sq, kf, gc, bc>>

\* Network::send through the value h
NetSend(h, msg) ==
    /\ nhist.ops < MaxNetOps
    /\ nets' = [nets EXCEPT ![handles[h]].outbound = Append(@, msg)]
    /\ nhist' = [nhist EXCEPT !.ops = @ + 1,
                              !.sent[nhist.origin[h]] = Append(@, msg),
                              !.last = [op |-> "send", h |-> h, msg |-> msg,
                                        ok |-> TRUE]]
    /\ UNCHANGED <<lines, rdr, rx, pcMain, init, dpc, json_ch, cur, wpc,
                       wrpcs, seq, call, rpcm, ch, ret, lock, callbacks,
                       chans, outbound, spc, stdout_ch, wtr, written,
                       exited, enq, dispatched, handled, returned, herrs,
                       handles, rcall, node, sq, kf, gc, bc>>

\* Network::rpc through the value h; the receive endpoints stay open here,
\* so the send inside rpc succeeds
NetRpc(h, msg) ==
    /\ nhist.ops < MaxNetOps
    /\ LET n == handles[h]
           k == msg.body.msg_id
           c == Len(nets[n].chans) + 1
           dup == k \in DOMAIN nets[n].callbacks
       IN  /\ nets' = [nets EXCEPT ![n] =
                  IF dup
                  THEN [@ EXCEPT
                          !.callbacks = Insert(@, k, c),
                          !.chans = Append(
                              [@ EXCEPT ![nets[n].callbacks[k]].tx = FALSE],
                              [NewChan(k, h) EXCEPT !.rx = FALSE])]
                  ELSE [@ EXCEPT
                          !.callbacks = Insert(@, k, c),
                          !.chans = Append(@, [NewChan(k, h) EXCEPT
                                                  !.sent = TRUE]),
                          !.outbound = Append(@, msg)]]
           /\ nhist' = [nhist EXCEPT
                  !.ops = @ + 1,
                  !.pend = @ \cup {<<nhist.origin[h], k>>},
                  !.sent[nhist.origin[h]] = IF dup THEN @ ELSE Append(@, msg),
                  !.last = [op |-> "rpc", h |-> h, msg |-> msg,
                            ok |-> ~dup]]
    /\ UNCHANGED <<lines, rdr, rx, pcMain, init, dpc, json_ch, cur, wpc,
                       wrpcs, seq, call, rpcm, ch, ret, lock, callbacks,
                       chans, outbound, spc, stdout_ch, wtr, written,
                       exited, enq, dispatched, handled, returned, herrs,
                       handles, rcall, node, sq, kf, gc, bc>>

\* Network::check_callback through the value h
NetCheck(h, msg) ==
    /\ nhist.ops < MaxNetOps
    /\ LET n == handles[h]
           cb == nets[n].callbacks
           chs == nets[n].chans
       IN  /\ nets' = [nets EXCEPT ![n].callbacks = CheckCallbacks(cb, msg),
                                   ![n].chans = CheckChans(cb, chs, msg)]
           /\ nhist' = [nhist EXCEPT
                  !.ops = @ + 1,
                  !.pend = @ \ {<<nhist.origin[h], msg.body.in_reply_to>>},
                  !.last = [op |-> "check", h |-> h, msg |-> msg,
                            ok |-> Consumed(cb, chs, msg)]]
    /\ UNCHANGED <<lines, rdr, rx, pcMain, init, dpc, json_ch, cur, wpc,
                       wrpcs, seq, call, rpcm, ch, ret, lock, callbacks,
                       chans, outbound, spc, stdout_ch, wtr, written,
                       exited, enq, dispatched, handled, returned, herrs,
                       handles, rcall, node, sq, kf, gc, bc>>

\* recv on the receive endpoint that the n-th new() returned
NetRecvOut(n) ==
    /\ nets[n].outbound # <<>>
    /\ nets' = [nets EXCEPT ![n].outbound = Tail(@)]
    /\ nhist' = [nhist EXCEPT !.recvd[n] = Append(@, Head(nets[n].outbound))]
    /\ UNCHANGED <<lines, rdr, rx, pcMain, init, dpc, json_ch, cur, wpc,
                       wrpcs, seq, call, rpcm, ch, ret, lock, callbacks,
                       chans, outbound, spc, stdout_ch, wtr, written,
                       exited, enq, dispatched, handled, returned, herrs,
                       handles, rcall, node, sq, kf, gc, bc>>

\* the msg_id is used again only when its earlier rpc has been answered
NextNet ==
    \/ NetNew
    \/ \E h \in 1..Len(handles) : NetClone(h)
    \/ \E h \in 1..Len(handles) : NetSend(h, PongMsg(NetId))
    \/ \E h \in 1..Len(handles) :
          /\ NetId \notin DOMAIN nets[handles[h]].callbacks
          /\ NetRpc(h, PingMsg(NetId))
    \/ \E h \in 1..Len(handles) : \E m \in NetInputs : NetCheck(h, m)
    \/ \E n \in 1..Len(nets) : NetRecvOut(n)

NetSpec == Init /\ [][NextNet]_vars

\* ------------------------------------------------------------------------
\* Message::into_reply and into_reply_with_id on their own (types.rs)
\* ------------------------------------------------------------------------
\* the thread that called into_reply panicked
Panic == [panic |-> TRUE]

\* msg_ids of the requests and of the explicit-id form: none, small ones
\* and the largest usize
ReplyIds == {None, 0, 1, UsizeMax - 1, UsizeMax}

ReplyRequests ==
    {Message(s, d, Body(i, r, [variant |-> "Add", delta |-> 1])) :
        s \in {"c1", "n2"}, d \in {"n1", "n2"}, i \in ReplyIds, r \in {None, 3}}

ReplyPayloads == {[variant |-> "AddOk"], [variant |-> "ReadOk", value |-> 0]}

\* what a call of into_reply can give: the reply, or a panic when the
\* addition overflows in a build with overflow checks
IntoReplyOutcomes(self, payload) ==
    IF AddOverflows(self)
    THEN {Panic, into_reply(self, payload)}
    ELSE {into_reply(self, payload)}

ReplyCall ==
    /\ \E self \in ReplyRequests : \E p \in ReplyPayloads :
       \E o \in IntoReplyOutcomes(self, p) :
           rcall' = [fn |-> "into_reply", self |-> self, payload |-> p,
                     id |-> None, out |-> o]
    /\ UNCHANGED <<lines, rdr, rx, pcMain, init, dpc, json_ch, cur, wpc,
                       wrpcs, seq, call, rpcm, ch, ret, lock, callbacks,
                       chans, outbound, spc, stdout_ch, wtr, written,
                       exited, enq, dispatched, handled, returned, herrs,
                       nets, handles, nhist, node, sq, kf, gc, bc>>

ReplyCallWithId ==
    /\ \E self \in ReplyRequests : \E p \in ReplyPayloads : \E i \in ReplyIds :
           rcall' = [fn |-> "into_reply_with_id", self |-> self,
                     payload |-> p, id |-> i,
                     out |-> into_reply_with_id(self, p, i)]
    /\ UNCHANGED <<lines, rdr, rx, pcMain, init, dpc, json_ch, cur, wpc,
                       wrpcs, seq, call, rpcm, ch, ret, lock, callbacks,
                       chans, outbound, spc, stdout_ch, wtr, written,
                       exited, enq, dispatched, handled, returned, herrs,
                       nets, handles, nhist, node, sq, kf, gc, bc>>

NextReply ==
    \/ ReplyCall
    \/ ReplyCallWithId

ReplySpec == Init /\ [][NextReply]_vars

\* ------------------------------------------------------------------------
\* The runtime with the echo node (examples/echo/main.rs)
\* ------------------------------------------------------------------------
EchoLine(c, i, s) ==
    to_string(Message(c, NodeId, Body(i, None, [variant |-> "Echo", echo |-> s])))

EchoOkLine(c, i, s) ==
    to_string(Message(c, NodeId,
                      Body(i, None, [variant |-> "EchoOk", echo |-> s])))

\* what the harness can put on the echo node's stdin as the i-th line:
\* the init, then echo requests of two clients, numbered by the harness or
\* carrying the largest msg_id, a message that is no request, and EOI
EchoLines(i) ==
    IF i = 1 THEN {InitLine(i)}
    ELSE {EchoLine("c1", i, "a"), EchoLine("c2", i, "b"),
          EchoLine("c1", UsizeMax, "a"), EchoOkLine("c1", i, "a"), EOI}

\* the reader thread of run on the echo node's stdin
ReaderEcho(max) ==
    /\ ~exited
    /\ rdr = "run"
    /\ Len(lines) < max
    /\ \E line \in EchoLines(Len(lines) + 1) :
           /\ lines' = Append(lines, line)
           /\ IF RxOpen
              THEN rx' = Append(rx, line) /\ UNCHANGED rdr
              ELSE rdr' = "panicked" /\ UNCHANGED rx
    /\ UNCHANGED <<pcMain, init, dpc, json_ch, cur, wpc, wrpcs, seq, call,
                       rpcm, ch, ret, lock, callbacks, chans, outbound,
                       spc, stdout_ch, wtr, written, exited, enq,
                       dispatched, handled, returned, herrs, nets,
                       handles, nhist, rcall, node, sq, kf, gc, bc>>

\* run_internal: Network::new() and EchoNode::from_init, which only keeps
\* the Network
FromInitEcho ==
    /\ ~exited
    /\ pcMain = "from_init"
    /\ pcMain' = "spawn"
    /\ UNCHANGED <<lines, rdr, rx, init, dpc, json_ch, cur, wpc, wrpcs, seq,
                       call, rpcm, ch, ret, lock, callbacks, chans,
                       outbound, spc, stdout_ch, wtr, written, exited,
                       enq, dispatched, handled, returned, herrs, nets,
                       handles, nhist, rcall, node, sq, kf, gc, bc>>

\* EchoNode::handle_message on an echo request: the reply is built with
\* into_reply and sent; the result of send is the handler's result.  When
\* the addition in into_reply overflows, a build with overflow checks
\* panics the main thread
HandlerEcho ==
    /\ ~exited
    /\ pcMain = "handle"
    /\ cur.body.payload.variant = "Echo"
    /\ cur' = NoMsg
    /\ \E o \in IntoReplyOutcomes(cur, [variant |-> "EchoOk",
                                         echo |-> cur.body.payload.echo]) :
          IF o = Panic
          THEN /\ pcMain' = "panicked"
               /\ exited' = TRUE
               /\ UNCHANGED <<outbound, enq, returned, herrs>>
          ELSE /\ Send(o)
               /\ pcMain' = IF SendOk THEN "recv" ELSE "shutdown"
               /\ returned' = returned + 1
               /\ herrs' = IF SendOk THEN herrs ELSE herrs + 1
               /\ UNCHANGED exited
    /\ UNCHANGED <<lines, rdr, rx, init, dpc, json_ch, wpc, wrpcs, seq, call,
                       rpcm, ch, ret, lock, callbacks, chans, spc,
                       stdout_ch, wtr, written, dispatched, handled, nets,
                       handles, nhist, rcall, node, sq, kf, gc, bc>>

\* EchoNode::handle_message on any other payload: bail!("expected echo"),
\* which the ? in process_input's loop makes the result of process_input
HandlerEchoErr ==
    /\ ~exited
    /\ pcMain = "handle"
    /\ cur.body.payload.variant # "Echo"
    /\ pcMain' = "shutdown"
    /\ cur' = NoMsg
    /\ returned' = returned + 1
    /\ herrs' = herrs + 1
    /\ UNCHANGED <<lines, rdr, rx, init, dpc, json_ch, wpc, wrpcs, seq, call,
                       rpcm, ch, ret, lock, callbacks, chans, outbound,
                       spc, stdout_ch, wtr, written, exited, enq,
                       dispatched, handled, nets, handles, nhist, rcall,
                       node, sq, kf, gc, bc>>

NextEcho ==
    \/ ReaderEcho(MaxLinesEcho)
    \/ RecvInit
    \/ FromInitEcho
    \/ Spawn
    \/ SerInitOk
    \/ SerForward
    \/ Writer
    \/ Dispatch
    \/ HandlerTake
    \/ HandlerEcho
    \/ HandlerEchoErr
    \/ HandlerEnd
    \/ MainPanic

EchoSpec == EchoInit /\ [][NextEcho]_vars

\* ------------------------------------------------------------------------
\* The rpc ids of the kafka node (bin/kafka/main.rs): every thread draws
\* from a clone of one Sequence, as gcount's worker and handle_read draw
\* from one Arc<AtomicUsize>
\* ------------------------------------------------------------------------
\* a Sequence whose clone counts on its own
SeqGetOwnCounter(t) ==
    /\ sq.pc[t] = "idle"
    /\ sq.shared < MaxDraws
    /\ sq' = [sq EXCEPT !.id[t] = sq.n[t],
                        !.shared = @ + 1,
                        !.n[t] = @ + 1,
                        !.pc[t] = "drawn"]
    /\ UNCHANGED <<lines, rdr, rx, pcMain, init, dpc, json_ch, cur, wpc,
                       wrpcs, seq, call, rpcm, ch, ret, lock, callbacks,
                       chans, outbound, spc, stdout_ch, wtr, written,
                       exited, enq, dispatched, handled, returned, herrs,
                       nets, handles, nhist, rcall, node, kf, gc, bc>>

\* Sequence::get: fetch_add(1, SeqCst) on the shared counter
SeqGet(t) ==
    /\ sq.pc[t] = "idle"
    /\ sq.shared < MaxDraws
    /\ sq' = [sq EXCEPT !.id[t] = sq.shared,
                        !.shared = @ + 1,
                        !.n[t] = @ + 1,
                        !.pc[t] = "drawn"]
    /\ UNCHANGED <<lines, rdr, rx, pcMain, init, dpc, json_ch, cur, wpc,
                       wrpcs, seq, call, rpcm, ch, ret, lock, callbacks,
                       chans, outbound, spc, stdout_ch, wtr, written,
                       exited, enq, dispatched, handled, returned, herrs,
                       nets, handles, nhist, rcall, node, kf, gc, bc>>

\* a worker passes the message with the id it drew to network.rpc: the id
\* is inserted in the registry, or rpc fails on a key that is present and
\* the worker goes on to its next job
SeqRpc(t) ==
    /\ t \in SeqWorkers
    /\ sq.pc[t] = "drawn"
    /\ sq' = [sq EXCEPT
                 !.issued = Append(@, [t |-> t, id |-> sq.id[t]]),
                 !.reg = @ \cup {sq.id[t]},
                 !.dups = IF sq.id[t] \in sq.reg THEN @ + 1 ELSE @,
                 !.pc[t] = IF sq.id[t] \in sq.reg THEN "idle" ELSE "wait"]
    /\ UNCHANGED <<lines, rdr, rx, pcMain, init, dpc, json_ch, cur, wpc,
                       wrpcs, seq, call, rpcm, ch, ret, lock, callbacks,
                       chans, outbound, spc, stdout_ch, wtr, written,
                       exited, enq, dispatched, handled, returned, herrs,
                       nets, handles, nhist, rcall, node, kf, gc, bc>>

\* the reply to the worker's rpc arrives: check_callback removes the entry
\* and the worker's recv returns
SeqReply(t) ==
    /\ sq.pc[t] = "wait"
    /\ sq' = [sq EXCEPT !.reg = @ \ {sq.id[t]}, !.pc[t] = "idle"]
    /\ UNCHANGED <<lines, rdr, rx, pcMain, init, dpc, json_ch, cur, wpc,
                       wrpcs, seq, call, rpcm, ch, ret, lock, callbacks,
                       chans, outbound, spc, stdout_ch, wtr, written,
                       exited, enq, dispatched, handled, returned, herrs,
                       nets, handles, nhist, rcall, node, kf, gc, bc>>

\* handle_commit_offsets: the handler sends the commit it numbered
SeqSend ==
    /\ sq.pc["handler"] = "drawn"
    /\ sq' = [sq EXCEPT !.pc["handler"] = "idle"]
    /\ UNCHANGED <<lines, rdr, rx, pcMain, init, dpc, json_ch, cur, wpc,
                       wrpcs, seq, call, rpcm, ch, ret, lock, callbacks,
                       chans, outbound, spc, stdout_ch, wtr, written,
                       exited, enq, dispatched, handled, returned, herrs,
                       nets, handles, nhist, rcall, node, kf, gc, bc>>

NextSeq ==
    \/ \E t \in SeqThreads : SeqGet(t)
    \/ \E t \in SeqWorkers : SeqRpc(t)
    \/ \E t \in SeqWorkers : SeqReply(t)
    \/ SeqSend

SeqSpec == Init /\ [][NextSeq]_vars

\* ------------------------------------------------------------------------
\* kafka on two nodes (bin/kafka/main.rs): clients send, the node that does
\* not own the log forwards through its send worker.  Each node runs the
\* runtime's dispatcher (check_callback, then json_tx) and handler loop.
\* ------------------------------------------------------------------------
\* get_partition: nodes[hash % nodes.len()], Rust indexes from 0
get_partition(key, nodes) == nodes[(kf.hash[key] % Len(nodes)) + 1]

\* msg.src.starts_with('c'): Maelstrom names clients c1, c2, .. and nodes
\* n1, n2, ..
StartsWithC(src) == src \in KClients

SendMsg(src, dest, id, key) ==
    Message(src, dest, Body(id, None, [variant |-> "Send", key |-> key,
                                       msg |-> id]))

SendOkPayload(offset) == [variant |-> "SendOk", offset |-> offset]

\* a client sends a send request for some log to some node
KClientSend(c) ==
    /\ kf.csent["c1"] + kf.csent["c2"] < MaxSends
    /\ \E n \in KNodes : \E key \in KKeys :
           kf' = [kf EXCEPT !.csent[c] = @ + 1,
                            !.net = @ \cup {SendMsg(c, n, kf.csent[c] + 1, key)}]
    /\ UNCHANGED <<lines, rdr, rx, pcMain, init, dpc, json_ch, cur, wpc,
                       wrpcs, seq, call, rpcm, ch, ret, lock, callbacks,
                       chans, outbound, spc, stdout_ch, wtr, written,
                       exited, enq, dispatched, handled, returned, herrs,
                       nets, handles, nhist, rcall, node, sq, gc, bc>>

\* the network hands a message to its destination node n: the line reaches
\* the node's stdin and its dispatcher runs check_callback on it, then
\* sends on json_tx what check_callback returns
KDeliver ==
    /\ \E m \in kf.net :
           /\ m.dest \in KNodes
           /\ LET n == m.dest
                  k == m.body.in_reply_to
              IN  IF k # None /\ k \in DOMAIN kf.reg[n]
                  THEN kf' = [kf EXCEPT !.net = @ \ {m},
                                        !.reg[n] = Remove(@, k),
                                        !.buf[n][kf.reg[n][k]] = m]
                  ELSE kf' = [kf EXCEPT !.net = @ \ {m},
                                        !.jq[n] = Append(@, m)]
    /\ UNCHANGED <<lines, rdr, rx, pcMain, init, dpc, json_ch, cur, wpc,
                       wrpcs, seq, call, rpcm, ch, ret, lock, callbacks,
                       chans, outbound, spc, stdout_ch, wtr, written,
                       exited, enq, dispatched, handled, returned, herrs,
                       nets, handles, nhist, rcall, node, sq, gc, bc>>

\* the network hands a reply to a client
KClientRecv ==
    /\ \E m \in kf.net :
           /\ m.dest \in KClients
           /\ kf' = [kf EXCEPT !.net = @ \ {m},
                               !.cgot[m.dest] = @ \cup {m}]
    /\ UNCHANGED <<lines, rdr, rx, pcMain, init, dpc, json_ch, cur, wpc,
                       wrpcs, seq, call, rpcm, ch, ret, lock, callbacks,
                       chans, outbound, spc, stdout_ch, wtr, written,
                       exited, enq, dispatched, handled, returned, herrs,
                       nets, handles, nhist, rcall, node, sq, gc, bc>>

\* a handle_send that forwards by itself: the handler calls rpc and waits
\* for the owner's answer
HandleRemoteInline(n, msg, partition) ==
    LET id == kf.sequence[n]
        fwd == [msg EXCEPT !.src = n, !.dest = partition, !.body.msg_id = id]
    IN  kf' = [kf EXCEPT !.jq[n] = Tail(@),
                         !.sequence[n] = @ + 1,
                         !.reg[n] = Insert(@, id, "handler"),
                         !.net = @ \cup {fwd},
                         !.job[n]["handler"] =
                             [client_send |-> msg, partition |-> partition],
                         !.pc[n]["handler"] = "wait"]

\* handle_send, remote partition: the job goes to the send worker's
\* channel and handle_send returns
HandleRemote(n, msg, partition) ==
    kf' = [kf EXCEPT !.jq[n] = Tail(@),
                     !.send_worker[n] =
                         Append(@, [client_send |-> msg,
                                    partition |-> partition])]

\* handle_send, own partition: append to the log and reply with the offset
HandleLocal(n, msg) ==
    LET key == msg.body.payload.key
        offset == Len(kf.logs[n][key])
    IN  kf' = [kf EXCEPT !.jq[n] = Tail(@),
                         !.logs[n][key] = Append(@, [offset |-> offset,
                                                     msg |-> msg.body.payload.msg,
                                                     src |-> msg.src]),
                         !.net = @ \cup {into_reply(msg, SendOkPayload(offset))}]

\* the handler loop of node n takes the next message: handle_message
KHandle(n) ==
    /\ kf.pc[n]["handler"] = "run"
    /\ kf.jq[n] # <<>>
    /\ LET msg == Head(kf.jq[n])
       IN  IF msg.body.payload.variant # "Send"
           THEN kf' = [kf EXCEPT !.jq[n] = Tail(@)]
           ELSE LET partition == get_partition(msg.body.payload.key, KNodeIds)
                IN  IF partition # n
                    THEN IF StartsWithC(msg.src)
                         THEN HandleRemote(n, msg, partition)
                         ELSE \* the assert! fails
                              kf' = [kf EXCEPT !.jq[n] = Tail(@),
                                               !.pc[n]["handler"] = "panicked"]
                    ELSE HandleLocal(n, msg)
    /\ UNCHANGED <<lines, rdr, rx, pcMain, init, dpc, json_ch, cur, wpc,
                       wrpcs, seq, call, rpcm, ch, ret, lock, callbacks,
                       chans, outbound, spc, stdout_ch, wtr, written,
                       exited, enq, dispatched, handled, returned, herrs,
                       nets, handles, nhist, rcall, node, sq, gc, bc>>

\* a forward that leaves the destination of the client's message in place
ForwardKeepingDest(n, job, id) ==
    [job.client_send EXCEPT !.src = n, !.body.msg_id = id]

\* send_worker: the client's message with src, dest and msg_id replaced
Forward(n, job, id) ==
    [job.client_send EXCEPT !.src = n, !.dest = job.partition,
                            !.body.msg_id = id]

\* send_worker of node n takes a job and calls rpc with the forward
KWorkerTake(n) ==
    /\ kf.pc[n]["send_worker"] = "idle"
    /\ kf.send_worker[n] # <<>>
    /\ LET job == Head(kf.send_worker[n])
           id == kf.sequence[n]
       IN  kf' = [kf EXCEPT !.send_worker[n] = Tail(@),
                            !.sequence[n] = @ + 1,
                            !.reg[n] = Insert(@, id, "send_worker"),
                            !.net = @ \cup {Forward(n, job, id)},
                            !.job[n]["send_worker"] = job,
                            !.pc[n]["send_worker"] = "wait"]
    /\ UNCHANGED <<lines, rdr, rx, pcMain, init, dpc, json_ch, cur, wpc,
                       wrpcs, seq, call, rpcm, ch, ret, lock, callbacks,
                       chans, outbound, spc, stdout_ch, wtr, written,
                       exited, enq, dispatched, handled, returned, herrs,
                       nets, handles, nhist, rcall, node, sq, gc, bc>>

\* result.recv() returns on the thread that called rpc: a send_ok is
\* passed on to the client as the reply to its send
KRecv(n, t) ==
    /\ kf.pc[n][t] = "wait"
    /\ kf.buf[n][t] # NoMsg
    /\ LET result == kf.buf[n][t]
           reply == into_reply(kf.job[n][t].client_send,
                               SendOkPayload(result.body.payload.offset))
       IN  kf' = [kf EXCEPT !.buf[n][t] = NoMsg,
                            !.job[n][t] = NoMsg,
                            !.pc[n][t] = IF t = "handler" THEN "run" ELSE "idle",
                            !.net = IF result.body.payload.variant = "SendOk"
                                    THEN @ \cup {reply} ELSE @]
    /\ UNCHANGED <<lines, rdr, rx, pcMain, init, dpc, json_ch, cur, wpc,
                       wrpcs, seq, call, rpcm, ch, ret, lock, callbacks,
                       chans, outbound, spc, stdout_ch, wtr, written,
                       exited, enq, dispatched, handled, returned, herrs,
                       nets, handles, nhist, rcall, node, sq, gc, bc>>

KafkaInit ==
    /\ InitRuntime("kafka")
    /\ \E h \in KHashes : kf = KafkaStart(h)
    /\ gc = GcStart
    /\ bc = BcStart({"n1", "n2", "n3"})

NextKafka ==
    \/ \E c \in KClients : KClientSend(c)
    \/ KDeliver
    \/ KClientRecv
    \/ \E n \in KNodes : KHandle(n)
    \/ \E n \in KNodes : KWorkerTake(n)
    \/ \E n \in KNodes : \E t \in KThreads : KRecv(n, t)

KafkaSpec == KafkaInit /\ [][NextKafka]_vars

\* fair delivery and fair scheduling: a message in flight is delivered and
\* a thread that can take a step takes it.  The clients issue finitely
\* many sends, so fairness of the steps of the network and of the nodes'
\* threads, taken together, gives each of them its turn.
KafkaFairness ==
    WF_vars(\/ KDeliver
            \/ KClientRecv
            \/ \E n \in KNodes : KHandle(n)
            \/ \E n \in KNodes : KWorkerTake(n)
            \/ \E n \in KNodes : \E t \in KThreads : KRecv(n, t))

KafkaFairSpec == KafkaInit /\ [][NextKafka]_vars /\ KafkaFairness

\* ------------------------------------------------------------------------
\* gcount's worker against seq-kv (examples/gcount/main.rs): the handler
\* adds deltas to unapplied, the worker writes them to the node's key
\* ------------------------------------------------------------------------
\* handle_add: unapplied.fetch_add(delta), then add_ok
GcHandleAdd ==
    /\ gc.acked < MaxAdds
    /\ gc' = [gc EXCEPT !.unapplied = @ + 1, !.acked = @ + 1]
    /\ UNCHANGED <<lines, rdr, rx, pcMain, init, dpc, json_ch, cur, wpc,
                       wrpcs, seq, call, rpcm, ch, ret, lock, callbacks,
                       chans, outbound, spc, stdout_ch, wtr, written,
                       exited, enq, dispatched, handled, returned, herrs,
                       nets, handles, nhist, rcall, node, sq, kf, bc>>

\* worker: unapplied.load; with something to apply it calls read_db
GcLoad ==
    /\ gc.pc = "load"
    /\ gc.unapplied > 0
    /\ gc' = [gc EXCEPT !.to_apply = gc.unapplied, !.pc = "read"]
    /\ UNCHANGED <<lines, rdr, rx, pcMain, init, dpc, json_ch, cur, wpc,
                       wrpcs, seq, call, rpcm, ch, ret, lock, callbacks,
                       chans, outbound, spc, stdout_ch, wtr, written,
                       exited, enq, dispatched, handled, returned, herrs,
                       nets, handles, nhist, rcall, node, sq, kf, bc>>

\* read_db returns: seq-kv answers read_ok with the stored value and the
\* worker goes on to the cas, or it answers with an error and the worker
\* starts over
GcRead ==
    /\ gc.pc = "read"
    /\ \/ gc' = [gc EXCEPT !.from = gc.store,
                           !.to = gc.store + gc.to_apply,
                           !.pc = "cas"]
       \/ gc' = [gc EXCEPT !.pc = "load"]
    /\ UNCHANGED <<lines, rdr, rx, pcMain, init, dpc, json_ch, cur, wpc,
                       wrpcs, seq, call, rpcm, ch, ret, lock, callbacks,
                       chans, outbound, spc, stdout_ch, wtr, written,
                       exited, enq, dispatched, handled, returned, herrs,
                       nets, handles, nhist, rcall, node, sq, kf, bc>>

\* seq-kv serves cas(from, to): cas_ok after the write when the stored
\* value is from, the precondition-failed error when it is not, or an
\* error of another kind with nothing written
CasOutcomes == {"cas_ok", "precondition_failed", "other_error"}

CasServed(o) ==
    CASE o = "cas_ok" -> gc.store = gc.from
      [] o = "precondition_failed" -> gc.store # gc.from
      [] o = "other_error" -> TRUE

\* worker: the cas reply arrives; on cas_ok and on any error body it
\* subtracts to_apply from unapplied and leaves the cas loop
GcCas ==
    /\ gc.pc = "cas"
    /\ \E o \in CasOutcomes :
           /\ CasServed(o)
           /\ gc' = [gc EXCEPT !.store = IF o = "cas_ok" THEN gc.to ELSE @,
                               !.unapplied = @ - gc.to_apply,
                               !.last = o,
                               !.pc = "load"]
    /\ UNCHANGED <<lines, rdr, rx, pcMain, init, dpc, json_ch, cur, wpc,
                       wrpcs, seq, call, rpcm, ch, ret, lock, callbacks,
                       chans, outbound, spc, stdout_ch, wtr, written,
                       exited, enq, dispatched, handled, returned, herrs,
                       nets, handles, nhist, rcall, node, sq, kf, bc>>

NextGc ==
    \/ GcHandleAdd
    \/ GcLoad
    \/ GcRead
    \/ GcCas

GcSpec == Init /\ [][NextGc]_vars

\* ------------------------------------------------------------------------
\* broadcast (examples/broadcast/main.rs): every node replicates the values
\* it accepted to all other nodes, batch by batch, until they are
\* acknowledged.  The network between the nodes may drop, delay and reorder.
\* ------------------------------------------------------------------------
\* from_init: node_ids without the node itself
neighbors(n) == bc.node_ids \ {n}

Replicate(src, dest, messages, sequence) ==
    Message(src, dest, Body(None, None, [variant |-> "Replicate",
                                         messages |-> messages, seq |-> sequence]))

ReplicateOk(sequence) == [variant |-> "ReplicateOk", seq |-> sequence]

\* add_unreplicated that keeps the entry for the first neighbour only
add_unreplicated_first(un, peers, sequence, message) ==
    IF peers = {} THEN un
    ELSE LET p == CHOOSE q \in peers : TRUE
         IN  [q \in (DOMAIN un) \cup {p} |->
                 (IF q \in DOMAIN un THEN un[q] ELSE {})
                 \cup (IF q = p THEN {[seq |-> sequence, message |-> message]}
                       ELSE {})]

\* add_unreplicated: entry(peer).or_insert(default).insert(seq, message)
\* for every neighbour
add_unreplicated(un, peers, sequence, message) ==
    [p \in (DOMAIN un) \cup peers |->
        (IF p \in DOMAIN un THEN un[p] ELSE {})
        \cup (IF p \in peers THEN {[seq |-> sequence, message |-> message]}
              ELSE {})]

\* remove_unreplicated that clears the acknowledged entries of every peer
remove_unreplicated_all(un, peer, sequence) ==
    [p \in DOMAIN un |-> {e \in un[p] : e.seq > sequence}]

\* remove_unreplicated: retain(|sequence, _| *sequence > seq) on the
\* peer's map
remove_unreplicated(un, peer, sequence) ==
    [un EXCEPT ![peer] = {e \in @ : e.seq > sequence}]

\* handle_broadcast at node n of the next value a client broadcasts
BBroadcast(n) ==
    /\ bc.alive[n]
    /\ bc.vals < MaxBroadcasts
    /\ LET message == bc.vals + 1
       IN  bc' = [bc EXCEPT
                    !.vals = message,
                    !.messages[n] = @ \cup {message},
                    !.unreplicated[n] =
                        add_unreplicated(@, neighbors(n), bc.seq[n], message),
                    !.seq[n] = @ + 1]
    /\ UNCHANGED <<lines, rdr, rx, pcMain, init, dpc, json_ch, cur, wpc,
                       wrpcs, seq, call, rpcm, ch, ret, lock, callbacks,
                       chans, outbound, spc, stdout_ch, wtr, written,
                       exited, enq, dispatched, handled, returned, herrs,
                       nets, handles, nhist, rcall, node, sq, kf, gc>>

\* the highest key of a peer's map
HighestSeq(entries) ==
    CHOOSE s \in {e.seq : e \in entries} : \A e \in entries : e.seq <= s

\* one round of the replicator of node n: under the lock, a replicate with
\* all unreplicated values and the highest seq to every neighbour that has
\* any
BReplicate(n) ==
    /\ \E p \in DOMAIN bc.unreplicated[n] : bc.unreplicated[n][p] # {}
    /\ bc' = [bc EXCEPT !.net = @ \cup
                 {Replicate(n, p,
                            {e.message : e \in bc.unreplicated[n][p]},
                            HighestSeq(bc.unreplicated[n][p])) :
                    p \in {q \in neighbors(n) \cap DOMAIN bc.unreplicated[n] :
                              bc.unreplicated[n][q] # {}}}]
    /\ UNCHANGED <<lines, rdr, rx, pcMain, init, dpc, json_ch, cur, wpc,
                       wrpcs, seq, call, rpcm, ch, ret, lock, callbacks,
                       chans, outbound, spc, stdout_ch, wtr, written,
                       exited, enq, dispatched, handled, returned, herrs,
                       nets, handles, nhist, rcall, node, sq, kf, gc>>

\* the network delivers a copy of m and the handler of its destination
\* runs handle_replicate or handle_replicate_ok on it.  The replicator
\* sends the same replicate again on every round, so any number of copies
\* of a message can be in flight: net keeps m, and each copy arrives at
\* any later time or never.
BDeliver(m) ==
    /\ m \in bc.net
    /\ bc.alive[m.dest]
    /\ LET n == m.dest
           p == m.body.payload
       IN  IF p.variant = "Replicate"
           THEN bc' = [bc EXCEPT
                         !.messages[n] = @ \cup p.messages,
                         !.net = @ \cup {into_reply(m, ReplicateOk(p.seq))}]
           ELSE IF m.src \in DOMAIN bc.unreplicated[n]
           THEN bc' = [bc EXCEPT
                         !.unreplicated[n] =
                             remove_unreplicated(@, m.src, p.seq)]
           ELSE \* "missing peer": handle_message returns the error
                bc' = [bc EXCEPT !.alive[n] = FALSE]
    /\ UNCHANGED <<lines, rdr, rx, pcMain, init, dpc, json_ch, cur, wpc,
                       wrpcs, seq, call, rpcm, ch, ret, lock, callbacks,
                       chans, outbound, spc, stdout_ch, wtr, written,
                       exited, enq, dispatched, handled, returned, herrs,
                       nets, handles, nhist, rcall, node, sq, kf, gc>>

NextBc ==
    \/ \E n \in bc.node_ids : BBroadcast(n)
    \/ \E n \in bc.node_ids : BReplicate(n)
    \/ \E m \in bc.net : BDeliver(m)

BcSpec == Init /\ [][NextBc]_vars

\* the replicator threads keep running, and a replicate that is sent again
\* and again to a peer is delivered in the end; nothing is promised for
\* the replicate_ok messages
BcFairness ==
    /\ WF_vars(\E n \in bc.node_ids : BReplicate(n))
    /\ WF_vars(\E m \in bc.net :
                  m.body.payload.variant = "Replicate" /\ BDeliver(m))

BcFairSpec == Init /\ [][NextBc]_vars /\ BcFairness

\* ------------------------------------------------------------------------
\* Properties
\* ------------------------------------------------------------------------
Last(s) == s[Len(s)]

\* this step is the dispatcher running check_callback on a message
Checked == Len(dispatched') = Len(dispatched) + 1

\* C1: the registry already holds msg_id k, mapped to the caller's one-shot
\* sender, in the state in which rpc puts the request on the outbound
\* channel; and when a message with in_reply_to = k is checked while the
\* request is out, the caller's receiver exists and no reply has reached it
\* yet, check_callback consumes it: it is not passed on as a regular message.
C1_RegisteredBeforeVisible ==
    [][ /\ \A t \in Threads :
              (call[t] = "rpc" /\ call'[t] = "hold")
              => /\ Last(enq') = rpcm[t]
                 /\ rpcm[t].body.msg_id \in DOMAIN callbacks
                 /\ callbacks[rpcm[t].body.msg_id] = ch[t]
        /\ \A c \in 1..Len(chans) :
              (/\ Checked
               /\ Last(dispatched').msg.body.in_reply_to = chans[c].k
               /\ chans[c].sent /\ chans[c].rx /\ chans[c].all = <<>>)
              => /\ Last(dispatched').consumed
                 /\ json_ch' = json_ch
                 /\ chans'[c].all = <<Last(dispatched').msg>>
      ]_vars

\* C1 witness: a reply was consumed for a request that had left the node
C1_Witness ==
    \E c \in 1..Len(chans) :
        /\ chans[c].sent
        /\ chans[c].all # <<>>
        /\ \E j \in 1..Len(written) : written[j] = to_string(CasMsg(chans[c].k))

\* C2: when check_callback is given a message whose in_reply_to is a key k
\* of the registry and the receiver of the registered one-shot channel still
\* exists, it consumes the message (nothing is handed to the handler),
\* removes k, and puts exactly that message on the channel; and what the
\* receiver returns is that one message, unchanged.
C2_MatchedReplyDelivered ==
    [][ /\ \A k \in DOMAIN callbacks :
              (/\ Checked
               /\ from_str(Head(rx), PayloadVariants).body.in_reply_to = k
               /\ chans[callbacks[k]].rx)
              => /\ Last(dispatched').consumed
                 /\ json_ch' = json_ch
                 /\ k \notin DOMAIN callbacks'
                 /\ chans'[callbacks[k]].buf
                        = <<from_str(Head(rx), PayloadVariants)>>
        /\ \A c \in 1..Len(chans) :
              chans'[c].got # chans[c].got
              => /\ chans'[c].got = chans[c].all
                 /\ Len(chans[c].all) = 1
                 /\ \E j \in 2..Len(lines) :
                        chans[c].all[1] = from_str(lines[j], PayloadVariants)
      ]_vars

\* C2 witness: a receiver has returned the reply and its key is gone
C2_Witness ==
    \E c \in 1..Len(chans) :
        /\ chans[c].got # <<>>
        /\ chans[c].got[1].body.in_reply_to = chans[c].k
        /\ chans[c].k \notin DOMAIN callbacks

\* C3: a one-shot channel carries at most one message over its whole life,
\* and once a message has been sent on it the sender is gone and the
\* registry no longer refers to the channel, so nothing can follow.
C3_OneShot ==
    \A c \in 1..Len(chans) :
        /\ Len(chans[c].all) <= 1
        /\ Len(chans[c].buf) + Len(chans[c].got) <= 1
        /\ chans[c].all # <<>>
           => /\ ~chans[c].tx
              /\ \A k \in DOMAIN callbacks : callbacks[k] # c

\* C3 witness: after a delivery on a channel whose receiver still exists, a
\* second message with the same in_reply_to was checked and not delivered
C3_Witness ==
    \E c \in 1..Len(chans) : \E j \in 1..Len(dispatched) :
        /\ chans[c].all # <<>>
        /\ chans[c].rx
        /\ dispatched[j].msg.body.in_reply_to = chans[c].k
        /\ dispatched[j].msg # chans[c].all[1]
        /\ ~dispatched[j].consumed

\* the handler thread is inside handle_message, blocked in recv on the
\* receiver of one-shot channel c, which rpc returned to it
HandlerBlockedOn(c) ==
    /\ pcMain = "handle"
    /\ call["main"] = "hold"
    /\ ch["main"] = c

\* a line answering msg_id k has arrived on stdin and waits for the
\* dispatcher, which is running and has no end of input ahead of that line
ReplyArrived(k) ==
    /\ dpc = "run"
    /\ \E j \in 1..Len(rx) :
          /\ \A i \in 1..j : rx[i] # EOI
          /\ from_str(rx[j], PayloadVariants) # ParseError
          /\ from_str(rx[j], PayloadVariants).body.in_reply_to = k

\* the one-shot channels a run of FairSpec can create
ChanIds == 1..(MaxLinesLive + MaxWorkerRpc)

\* the reply for its own request has reached the receiver of channel c
GotReply(c) ==
    /\ c <= Len(chans)
    /\ chans[c].got # <<>>
    /\ chans[c].got[1].body.in_reply_to = chans[c].k

\* handle_message waits on channel c and the reply line is on stdin
AwaitsArrivedReply(c) ==
    /\ c <= Len(chans)
    /\ HandlerBlockedOn(c)
    /\ ReplyArrived(chans[c].k)

\* C4: when handle_message is blocked on the receiver of its rpc and the
\* matching reply line has arrived on stdin, then under fair scheduling the
\* dispatcher routes the reply to that receiver and handle_message resumes
\* with it: the blocked handler never has to route its own reply.
C4_BlockedHandlerResumes ==
    \A c \in ChanIds : AwaitsArrivedReply(c) ~> GotReply(c)

\* C4 witness: handle_message has resumed from its rpc with the reply that
\* the dispatcher routed while it was blocked
C4_Witness ==
    \E c \in 1..Len(chans) :
        /\ chans[c].owner = "main"
        /\ chans[c].got # <<>>
        /\ chans[c].got[1].body.in_reply_to = chans[c].k
        /\ pcMain = "reply"

\* handle_message is blocked awaiting the reply to its own rpc
HandlerBlocked == pcMain = "handle" /\ call["main"] = "hold"

\* the line at the head of stdin_rx answers the outstanding rpc of channel
\* c, which is not the one handle_message awaits
AnswersOther(c) ==
    /\ rx # <<>>
    /\ Head(rx) # EOI
    /\ c # ch["main"]
    /\ chans[c].k \in DOMAIN callbacks
    /\ callbacks[chans[c].k] = c
    /\ chans[c].rx
    /\ from_str(Head(rx), PayloadVariants) # ParseError
    /\ from_str(Head(rx), PayloadVariants).body.in_reply_to = chans[c].k

\* C5: while handle_message is blocked awaiting the reply to its own rpc, a
\* reply to another outstanding rpc that arrives on stdin is delivered to
\* that rpc's receiver without waiting for the handler: the dispatcher can
\* take the line as soon as no thread is inside Network::rpc, and taking it
\* puts the reply on the other receiver while handle_message is still
\* blocked and has not returned.
C5_OtherReplyDelivered ==
    /\ [](\A c \in 1..Len(chans) :
            (/\ HandlerBlocked /\ AnswersOther(c) /\ dpc = "run"
             /\ \A t \in Threads : call[t] # "rpc")
            => ENABLED Dispatch)
    /\ [][\A c \in 1..Len(chans) :
            (HandlerBlocked /\ AnswersOther(c) /\ Checked)
            => /\ chans'[c].buf = <<from_str(Head(rx), PayloadVariants)>>
               /\ Last(dispatched').consumed
               /\ HandlerBlocked'
               /\ returned' = returned
               /\ json_ch' = json_ch
       ]_vars

\* C5 witness: the worker's rpc, issued after the rpc that handle_message
\* is still blocked on, has had its reply delivered
C5_Witness ==
    /\ HandlerBlocked
    /\ \E c \in 1..Len(chans) :
          /\ chans[c].owner = "worker"
          /\ c > ch["main"]
          /\ chans[c].all # <<>>
          /\ chans[c].all[1].body.in_reply_to = chans[c].k

\* the entries of dispatched for messages that the dispatcher handed to the
\* handler loop while handle_message was blocked in the recv of its rpc;
\* inv is the number of the blocked call, waiting the messages queued ahead
ArrivedWhileBlocked ==
    {j \in 1..Len(dispatched) :
        /\ dispatched[j].inv > 0
        /\ ~dispatched[j].consumed
        /\ dispatched[j].msg.body.in_reply_to = None}

NotConsumed(d) == ~d.consumed

\* the messages check_callback returned to the dispatcher, in the order in
\* which the dispatcher checked them
Returned ==
    LET kept == SelectSeq(dispatched, NotConsumed)
    IN  [i \in 1..Len(kept) |-> kept[i].msg]

\* C7: the dispatcher checks the post-init stdin lines in arrival order,
\* and the sequence of messages passed to handle_message is that sequence
\* with exactly the messages removed that check_callback consumed as rpc
\* replies: what has been passed so far is a prefix of it, and while the
\* handler loop runs the rest waits in order in the handler's queue, so
\* nothing is reordered, duplicated or lost.
C7_HandledInArrivalOrder ==
    /\ \A j \in 1..Len(dispatched) :
          /\ j + 1 <= Len(lines)
          /\ dispatched[j].msg = from_str(lines[j + 1], PayloadVariants)
    /\ Len(handled) <= Len(Returned)
    /\ \A i \in 1..Len(handled) : handled[i] = Returned[i]
    /\ JsonRxOpen => handled \o json_ch = Returned

\* C7 witness: two messages were passed to handle_message and a line
\* between them was consumed as an rpc reply
C7_Witness ==
    /\ Len(handled) >= 2
    /\ handled = Returned
    /\ \E i, j, k \in 1..Len(dispatched) :
          /\ i < j /\ j < k
          /\ ~dispatched[i].consumed
          /\ dispatched[j].consumed
          /\ ~dispatched[k].consumed
          /\ handled[Len(handled)] = dispatched[k].msg

\* how often message m occurs in sequence s
Count(s, m) == Cardinality({i \in 1..Len(s) : s[i] = m})

\* C8: handle_message is invoked once per inbound message after init that
\* check_callback did not consume: such a message has been passed at most
\* once and, while the handler loop runs, is either waiting in its queue or
\* has been passed exactly once.  It is never invoked for the init message
\* or for a consumed message, every invocation is for a message the
\* dispatcher handed over, and a new invocation starts only after the
\* previous one has returned.
C8_OncePerMessageSerialized ==
    /\ \A j \in 1..Len(dispatched) :
          LET m == dispatched[j].msg
          IN  IF dispatched[j].consumed
              THEN Count(handled, m) = 0 /\ Count(json_ch, m) = 0
              ELSE /\ Count(handled, m) <= 1
                   /\ JsonRxOpen => Count(handled, m) + Count(json_ch, m) = 1
    /\ \A i \in 1..Len(handled) :
          /\ handled[i] # init
          /\ handled[i].body.payload.variant # "Init"
          /\ \E j \in 1..Len(dispatched) :
                dispatched[j].msg = handled[i] /\ ~dispatched[j].consumed
    /\ Len(handled) - returned \in {0, 1}
    /\ Len(handled) - returned = 1
       <=> (pcMain \in {"handle", "reply"} /\ cur = handled[Len(handled)])
    /\ Len(handled) = returned <=> cur = NoMsg

\* C8 witness: after init, one message was consumed as an rpc reply, two
\* others were passed to handle_message, and the second call is running
C8_Witness ==
    /\ init # NoMsg
    /\ Len(handled) = 2
    /\ returned = 1
    /\ \E j \in 1..Len(dispatched) : dispatched[j].consumed

\* the lines the serializer has handed to the writer, printed or not yet
HandedToWriter == written \o stdout_ch

\* C9: with the handler thread, from_init and the worker thread all sending
\* through the facade (send or rpc), the lines handed to the writer after
\* init_ok are the serialized messages in the order in which they were
\* enqueued on the outbound channel, and the messages not yet handed over
\* wait on that channel in the same order: none is dropped, duplicated or
\* reordered between facade and writer.
C9_OutboundOrder ==
    LET n == Len(HandedToWriter)
    IN  /\ n <= Len(enq) + 1
        /\ \A i \in 2..n : HandedToWriter[i] = to_string(enq[i - 1])
        /\ outbound = SubSeq(enq, IF n = 0 THEN 1 ELSE n, Len(enq))

\* C9 witness: an rpc request of the worker thread and a reply of the
\* handler thread have both been printed after init_ok
C9_Witness ==
    /\ Len(written) >= 3
    /\ \E c \in 1..Len(chans) : \E i \in 2..Len(written) :
          /\ chans[c].owner = "worker"
          /\ written[i] = to_string(CasMsg(chans[c].k))
    /\ \E j \in 2..Len(written) :
          written[j].dest = Client /\ written[j].body.type = "add_ok"

\* C10: after a valid init message, the first line handed to the writer is
\* the init_ok that answers it (in_reply_to the init's msg_id, src and dest
\* swapped); until then nothing is handed to the writer, and whatever the
\* node sent through the facade before, inside from_init or from a thread
\* that from_init spawned, waits on the outbound channel and follows it.
C10_InitOkFirst ==
    /\ HandedToWriter # <<>>
       => /\ init = from_str(lines[1], InitVariants)
          /\ init.body.payload.variant = "Init"
          /\ HandedToWriter[1].body.type = "init_ok"
          /\ HandedToWriter[1].body.in_reply_to = init.body.msg_id
          /\ HandedToWriter[1].src = init.dest
          /\ HandedToWriter[1].dest = init.src
          /\ \A i \in 2..Len(HandedToWriter) :
                /\ HandedToWriter[i].body.type # "init_ok"
                /\ \E j \in 1..Len(enq) : HandedToWriter[i] = to_string(enq[j])
    /\ HandedToWriter = <<>> => outbound = enq

\* C10 witness: the message sent inside from_init, enqueued before the
\* serializer existed, was handed to the writer right after init_ok
C10_Witness ==
    /\ Len(HandedToWriter) >= 2
    /\ HandedToWriter[1].body.type = "init_ok"
    /\ HandedToWriter[2] = to_string(HelloMsg)
    /\ enq[1] = HelloMsg

\* the init_ok line the specification expects for the init message of
\* line 1: addressed back to the sender, in_reply_to its msg_id, no msg_id
ExpectedInitOk ==
    to_string(Message(lines[1].dest, lines[1].src,
                      Body(None, lines[1].body.msg_id, [variant |-> "InitOk"])))

\* C11: for the input of one init message (from c1 to n1, msg_id i)
\* followed by EOI, given to a node that sends nothing itself, what is
\* written is exactly one line: the init_ok from n1 to c1 whose body has
\* in_reply_to = i and msg_id null.
C11_InitOnlyOutput ==
    (lines = <<InitLine(1), EOI>> /\ enq = <<>> /\ written # <<>>)
    => written = <<ExpectedInitOk>>

\* the first stdin line is not an init message: it does not parse as a
\* message of the Init enum (unparseable, EOI), or parses as init_ok; or
\* stdin ended before any line
NoInitFirst ==
    \/ lines = <<>> /\ rdr = "eof"
    \/ /\ lines # <<>>
       /\ \/ from_str(lines[1], InitVariants) = ParseError
          \/ from_str(lines[1], InitVariants).body.payload.variant # "Init"

\* C12: if the first stdin line is not an init message (an init_ok
\* payload, an unparseable line, the EOI sentinel, or end of input), the
\* only step run_internal takes is to return an error, which ends the
\* process: the node factory is never called (no node, no worker thread),
\* the serializer never starts and nothing is written, and no dispatcher
\* exists, so no message is checked or passed to a handler.
C12_NoInitIsFatal ==
    NoInitFirst
    => /\ pcMain \in {"recv_init", "failed"}
       /\ pcMain = "failed" => exited
       /\ (pcMain = "recv_init" /\ ~exited) => ENABLED (RecvInit \/ RecvInitEof)
       /\ init = NoMsg
       /\ wpc = "unspawned"
       /\ spc = "unspawned"
       /\ dpc = "unspawned"
       /\ outbound = <<>> /\ enq = <<>>
       /\ stdout_ch = <<>> /\ written = <<>>
       /\ dispatched = <<>> /\ handled = <<>> /\ json_ch = <<>>

\* C12 witness: run_internal has failed on a first line that carries an
\* init_ok, and more lines had been read
C12_Witness ==
    /\ Len(lines) >= 2
    /\ lines[1] = InitOkLine(1)
    /\ pcMain = "failed"
    /\ exited

\* this step is thread t calling Network::rpc: ret records the msg_id of
\* the message it was called with
CallsRpc(t) == call[t] = "none" /\ ret'[t] # ret[t]

\* C13: while msg_id k is registered, a second rpc with the same msg_id k
\* fails with the duplicate-id error, and its message is not placed on
\* the outbound channel: the call returns at once, without the send.
C13_DuplicateIdFails ==
    [][\A t \in Threads :
          (CallsRpc(t) /\ ret'[t].id \in DOMAIN callbacks)
          => /\ ret'[t].res = "duplicate_msg_id"
             /\ outbound' = outbound
             /\ enq' = enq
             /\ call'[t] = "none"
             /\ lock' = "free"
      ]_vars

\* C13 witness: the worker's rpc failed as a duplicate of the id that the
\* handler's rpc had registered, and only the handler's request went out
C13_Witness ==
    /\ ret["worker"].res = "duplicate_msg_id"
    /\ ret["main"].res = "ok"
    /\ ret["main"].id = ret["worker"].id
    /\ Count(enq, CasMsg(ret["worker"].id)) = 1

\* C14: rpc called with a message whose msg_id is absent fails with the
\* missing-id error, adds no entry to the registry and places nothing on
\* the outbound channel.
C14_MissingIdFails ==
    [][\A t \in Threads :
          (CallsRpc(t) /\ ret'[t].id = None)
          => /\ ret'[t].res = "missing_msg_id"
             /\ callbacks' = callbacks
             /\ outbound' = outbound
             /\ enq' = enq
             /\ call'[t] = "none"
             /\ lock' = "free"
      ]_vars

\* C14 witness: an rpc without msg_id has failed while another rpc was
\* registered, and no message without msg_id was sent to seq-kv
C14_Witness ==
    /\ ret["worker"] = [id |-> None, res |-> "missing_msg_id"]
    /\ DOMAIN callbacks # {}
    /\ \A i \in 1..Len(enq) : enq[i] # CasMsg(None)

\* C15: when handle_message returns an error for some message, the runtime
\* continues: the handler loop is still there to take the messages that
\* follow, and the node keeps running until EOF or EOI ends the dispatcher.
C15_HandlerErrorContinues ==
    herrs > 0
    => \/ pcMain \in {"recv", "handle", "reply"}
       \/ dpc = "done" /\ json_ch = <<>>

\* the positions of the EOI lines among the lines read so far
EOIAt == {j \in 1..Len(lines) : lines[j] = EOI}

\* no line that follows an EOI has been parsed and checked by the
\* dispatcher or passed to handle_message: what the dispatcher has checked
\* are the lines between the init and the first EOI, in order
NothingAfterEOI ==
    /\ \A j \in EOIAt : Len(dispatched) <= IF j >= 2 THEN j - 2 ELSE 0
    /\ \A i \in 1..Len(dispatched) :
          /\ i + 1 <= Len(lines)
          /\ dispatched[i].msg = from_str(lines[i + 1], PayloadVariants)
    /\ \A i \in 1..Len(handled) :
          \E d \in 1..Len(dispatched) : dispatched[d].msg = handled[i]
    /\ Len(json_ch) + Len(handled) <= Len(dispatched)

AllEnqueuedWritten ==
    /\ Len(written) = Len(enq) + 1
    /\ \A i \in 1..Len(enq) : written[i + 1] = to_string(enq[i])

\* C17: after a mixed sequence of inbound messages followed by EOI, every
\* outbound message that was enqueued on the facade before the handler loop
\* ended has been written to stdout when the process exits.
C17_FlushedBeforeExit ==
    (exited /\ init # NoMsg /\ EOIAt # {} /\ Len(handled) >= 1)
    => AllEnqueuedWritten

\* C18: after a successful init, once stdin has delivered EOI or reached
\* end of file and no handler is blocked (here: no handler returned an
\* error either), the process ends only by run() returning successfully:
\* it never ends by a panic or an error of the main thread.
C18_CleanShutdown ==
    (exited /\ init # NoMsg /\ herrs = 0 /\ (EOIAt # {} \/ StdinClosed))
    => pcMain = "returned"

\* the thread that holds the receiver of channel c and has not received yet
Holder(c) == {t \in DOMAIN ch : ch[t] = c /\ call[t] = "hold"}

\* a reply that check_callback sent on channel c and that the caller has
\* not received is in the channel's buffer
BufferedUntilReceived ==
    \A c \in 1..Len(chans) :
        /\ chans[c].all = chans[c].got \o chans[c].buf
        /\ chans[c].buf # <<>> =>
              /\ Len(chans[c].buf) = 1
              /\ chans[c].buf[1].body.in_reply_to = chans[c].k
              /\ chans[c].rx
              /\ Holder(c) # {}

\* a buffered reply stays in the buffer until the holder's receive, and
\* that receive returns it
ReceiveReturnsBuffered ==
    \A c \in 1..Len(chans) :
        chans[c].buf # <<>> =>
            \/ chans'[c] = chans[c] /\ Holder(c)' = Holder(c)
            \/ /\ chans'[c].got = chans[c].got \o chans[c].buf
               /\ chans'[c].buf = <<>>
               /\ Holder(c)' = {}

\* C19: when check_callback delivers the reply for msg_id k before the rpc
\* caller has received, the reply is buffered on the one-shot channel, not
\* lost: it stays there while the caller holds the receiver, and the
\* caller's later receive returns exactly that reply.
C19_EarlyReplyBuffered ==
    []BufferedUntilReceived /\ [][ReceiveReturnsBuffered]_vars

\* C19 witness: the worker's rpc got its reply, which had been delivered by
\* check_callback while the worker only held the receiver
C19_Witness ==
    \E c \in 1..Len(chans) :
        /\ chans[c].owner = "worker"
        /\ Len(chans[c].got) = 1
        /\ chans[c].got = chans[c].all
        /\ chans[c].got[1].body.in_reply_to = chans[c].k

\* check_callback's argument in a Checked step
CheckedMessage == from_str(Head(rx), PayloadVariants)

\* the message matches no registered rpc
Unmatched(m) ==
    \/ m.body.in_reply_to = None
    \/ m.body.in_reply_to \notin DOMAIN callbacks

\* C20: check_callback on a message that has no in_reply_to, or whose
\* in_reply_to is not a key of the registry, returns that same message
\* unchanged (the dispatcher forwards exactly it to the handler loop) and
\* leaves the registry and every one-shot channel unchanged.
C20_UnmatchedReturned ==
    [][(Checked /\ Unmatched(CheckedMessage)) =>
          /\ callbacks' = callbacks
          /\ chans' = chans
          /\ dispatched'[Len(dispatched')].msg = CheckedMessage
          /\ ~dispatched'[Len(dispatched')].consumed
          /\ JsonRxOpen => json_ch' = Append(json_ch, CheckedMessage)]_vars

\* C20 witness: with an rpc registered, a message carrying an in_reply_to
\* that is no key of the registry has just been returned and forwarded,
\* and a message without in_reply_to was returned before it
C20_Witness ==
    /\ DOMAIN callbacks # {}
    /\ Len(dispatched) >= 2
    /\ json_ch # <<>>
    /\ LET d == dispatched[Len(dispatched)]
       IN  /\ d.msg.body.in_reply_to # None
           /\ d.msg.body.in_reply_to \notin DOMAIN callbacks
           /\ ~d.consumed
           /\ json_ch[Len(json_ch)] = d.msg
    /\ \E j \in 1..(Len(dispatched) - 1) :
          dispatched[j].msg.body.in_reply_to = None /\ ~dispatched[j].consumed

\* the message matches a registered rpc whose waiter dropped its receiver
WaiterGone(m) ==
    /\ m.body.in_reply_to # None
    /\ m.body.in_reply_to \in DOMAIN callbacks
    /\ ~chans[callbacks[m.body.in_reply_to]].rx

\* C21: when the waiter of a registered rpc k has dropped its receiver,
\* check_callback on a message with in_reply_to = k does not report the
\* message consumed: it returns that same message, and the dispatcher
\* forwards it to the handler loop as a regular message.
C21_DroppedWaiterReturned ==
    [][(Checked /\ WaiterGone(CheckedMessage)) =>
          /\ dispatched'[Len(dispatched')].msg = CheckedMessage
          /\ ~dispatched'[Len(dispatched')].consumed
          /\ chans'[callbacks[CheckedMessage.body.in_reply_to]].got
                = chans[callbacks[CheckedMessage.body.in_reply_to]].got
          /\ JsonRxOpen => json_ch' = Append(json_ch, CheckedMessage)]_vars

\* C21 witness: the worker dropped the receiver of its rpc, the reply came
\* afterwards and handle_message was called with it
C21_Witness ==
    \E c \in 1..Len(chans) : \E j \in 1..Len(dispatched) :
        /\ chans[c].owner = "worker"
        /\ ~chans[c].rx
        /\ chans[c].all = <<>>
        /\ dispatched[j].msg.body.in_reply_to = chans[c].k
        /\ ~dispatched[j].consumed
        /\ \E h \in 1..Len(handled) : handled[h] = dispatched[j].msg

\* thread t leaves Network::rpc through its self.send(msg) in this step
RpcSendStep(t) == call[t] = "rpc" /\ call'[t] # "rpc"

\* handle_message returns the result of network.send(reply) in this step
ReplyStep ==
    /\ returned' = returned + 1
    /\ cur # NoMsg
    /\ cur.body.payload.variant \in {"Add", "Read"}

\* from_init sends on the facade in this step
HelloStep == pcMain = "from_init" /\ pcMain' = "spawn" /\ enq' # enq

\* what send(m) does, ok being the result its caller sees
SendEffect(m, ok) ==
    /\ callbacks' = callbacks
    /\ IF OutboundOpen
       THEN /\ ok
            /\ outbound' = Append(outbound, m)
            /\ enq' = Append(enq, m)
       ELSE /\ ~ok
            /\ outbound' = outbound
            /\ enq' = enq

\* a thread that is about to send takes that step whatever the channel holds
SendNeverBlocks ==
    ~exited =>
        /\ (pcMain = "reply" \/ call["main"] = "rpc") =>
              ENABLED (HandlerReply \/ HandlerRpcSend)
        /\ call["worker"] = "rpc" => ENABLED WorkerRpcSend

\* C22: send never blocks; while the outbound receive endpoint exists it
\* enqueues exactly the given message, unchanged, on the outbound channel
\* and succeeds without touching the registry; once the receive endpoint
\* has been dropped it fails with the send-failed error and enqueues
\* nothing.  Nothing but a send enqueues.
C22_SendEnqueuesOrFails ==
    /\ []SendNeverBlocks
    /\ [][/\ \A t \in Threads :
               RpcSendStep(t) =>
                  /\ SendEffect(rpcm[t], ret'[t].res = "ok")
                  /\ ret'[t].res \in {"ok", "send_failed"}
          /\ ReplyStep =>
                \E p \in {[variant |-> "AddOk"], [variant |-> "ReadOk", value |-> 0]} :
                    SendEffect(into_reply(cur, p), herrs' = herrs)
          /\ HelloStep => SendEffect(HelloMsg, TRUE)
          /\ enq' # enq =>
                \/ \E t \in Threads : RpcSendStep(t)
                \/ ReplyStep
                \/ HelloStep]_vars

\* C22 witness: messages were enqueued while the receive endpoint existed,
\* then the endpoint was dropped and both a plain send (the handler's
\* reply) and the send of an rpc failed
C22_Witness ==
    /\ enq # <<>>
    /\ ~OutboundOpen
    /\ herrs = 1
    /\ ret["worker"].res = "send_failed"

\* an operation through a Network value took place in this step
NetOpStep == nhist'.ops = nhist.ops + 1

\* check_callback through any value consumes a message exactly when its
\* in_reply_to was registered by an rpc through a value that descends from
\* the same new() call, and has not been matched since
MatchedWithinOneNew ==
    (NetOpStep /\ nhist'.last.op = "check") =>
        LET h == nhist'.last.h
            k == nhist'.last.msg.body.in_reply_to
        IN  nhist'.last.ok <=> (k # None /\ <<nhist.origin[h], k>> \in nhist.pend)

\* an operation through a value leaves the registry and the channel of
\* every other new() call as they were
OtherNetsUntouched ==
    NetOpStep =>
        \A n \in 1..Len(nets) :
            n # nhist.origin[nhist'.last.h] => nets'[n] = nets[n]

\* what was sent through the values that descend from the n-th new() call
\* is what its receive endpoint has returned or still holds, in order
SentArrivesAtOwnEndpoint ==
    /\ Len(nhist.sent) = Len(nets)
    /\ \A n \in 1..Len(nets) :
          nhist.recvd[n] \o nets[n].outbound = nhist.sent[n]

\* C23: all clones of one Network share state: an rpc registered through
\* any clone is matched by check_callback called on any other clone, and
\* messages sent through any clone arrive on the single receive endpoint
\* returned by new(); two Networks created by separate new() calls share
\* neither registry nor outbound channel.
C23_ClonesShareState ==
    /\ []SentArrivesAtOwnEndpoint
    /\ [][MatchedWithinOneNew /\ OtherNetsUntouched]_vars

\* C23 witness: with two new() calls made, an rpc registered through one
\* value was matched by check_callback through a clone of it, and a message
\* was sent on the other Network
C23_Witness ==
    /\ Len(nets) = 2
    /\ nhist.last # NoMsg
    /\ nhist.last.op = "check"
    /\ nhist.last.ok
    /\ \E c \in 1..Len(nets[1].chans) :
          /\ nets[1].chans[c].owner # nhist.last.h
          /\ nets[1].chans[c].all = <<nhist.last.msg>>
    /\ nhist.origin[nhist.last.h] = 1
    /\ nhist.sent[2] # <<>>
    /\ nets[1].callbacks = <<>>

\* an into_reply or into_reply_with_id call has built a reply
ReplyBuilt == rcall # NoMsg /\ rcall.out # Panic

\* C24: for every request message and payload, the reply built by
\* into_reply or into_reply_with_id has src equal to the request's dest,
\* dest equal to the request's src, and in_reply_to equal to the request's
\* msg_id (absent when the request has none); it carries the given payload.
C24_ReplySwapsEnds ==
    ReplyBuilt =>
        /\ rcall.out.src = rcall.self.dest
        /\ rcall.out.dest = rcall.self.src
        /\ rcall.out.body.in_reply_to = rcall.self.body.msg_id
        /\ rcall.out.body.payload = rcall.payload

\* C24 witness: into_reply built the reply to a request from c1 to n1 with
\* msg_id 1
C24_Witness ==
    /\ ReplyBuilt
    /\ rcall.fn = "into_reply"
    /\ rcall.self.src = "c1"
    /\ rcall.self.dest = "n1"
    /\ rcall.self.body.msg_id = 1
    /\ rcall.out.body.in_reply_to = 1

\* C25: into_reply gives the reply msg_id = request msg_id + 1 when the
\* request has a msg_id and no msg_id otherwise; into_reply_with_id gives
\* the reply exactly the msg_id supplied by the caller, independent of the
\* request's msg_id.
C25_ReplyMsgId ==
    rcall # NoMsg =>
        /\ rcall.out # Panic
        /\ rcall.fn = "into_reply" =>
              rcall.out.body.msg_id =
                  IF rcall.self.body.msg_id = None THEN None
                  ELSE rcall.self.body.msg_id + 1
        /\ rcall.fn = "into_reply_with_id" =>
              rcall.out.body.msg_id = rcall.id

\* the echo_ok that answers the echo request req
ExpectedEchoOk(req) ==
    Message(NodeId, req.src,
            Body(req.body.msg_id + 1, req.body.msg_id,
                 [variant |-> "EchoOk", echo |-> req.body.payload.echo]))

\* handle_message has finished with the j-th message it was called with
HandlerDoneWith(j) == j < Len(handled) \/ (j = Len(handled) /\ cur = NoMsg)

\* C26: with the echo node, after init every inbound echo request with
\* msg_id m from client c produces exactly one outbound echo_ok addressed
\* to c with src the node, in_reply_to = m, msg_id = m + 1 and the same
\* echo string, and the replies are written in the order of the requests.
C26_EchoReplies ==
    /\ Len(enq) <= Len(handled)
    /\ \A j \in 1..Len(handled) :
          /\ j + 1 <= Len(lines)
          /\ handled[j] = from_str(lines[j + 1], EchoVariants)
          /\ (handled[j].body.payload.variant = "Echo" /\ HandlerDoneWith(j)) =>
                /\ j <= Len(enq)
                /\ enq[j] = ExpectedEchoOk(handled[j])
    /\ \A i \in 2..Len(written) :
          /\ i - 1 <= Len(enq)
          /\ written[i] = to_string(enq[i - 1])

\* C27: msg_id is unique within its sender: no two outbound messages
\* written by the node during a run carry the same non-null msg_id,
\* counting the init_ok produced by the runtime and the replies produced
\* with into_reply.
C27_UniqueMsgIds ==
    \A i \in 1..Len(written) : \A j \in 1..Len(written) :
        (i < j /\ written[i].body.msg_id # None)
        => written[i].body.msg_id # written[j].body.msg_id

\* C28: an inbound message whose payload is an error and whose in_reply_to
\* matches a registered rpc is delivered to that rpc's receiver exactly as
\* a success reply would be: whether check_callback consumes a message
\* depends only on in_reply_to and the registry, never on the payload
\* variant.
C28_ErrorReplyDelivered ==
    [][Checked =>
          LET m == CheckedMessage
              k == m.body.in_reply_to
              d == dispatched'[Len(dispatched')]
          IN  /\ d.consumed <=> (k # None /\ k \in DOMAIN callbacks)
              /\ d.consumed =>
                    /\ chans'[callbacks[k]].buf = <<m>>
                    /\ callbacks' = Remove(callbacks, k)]_vars

\* C28 witness: an rpc caller received an error payload as the reply to its
\* request, and the dispatcher did not pass that message on
C28_Witness ==
    \E c \in 1..Len(chans) : \E j \in 1..Len(dispatched) :
        /\ Len(chans[c].got) = 1
        /\ chans[c].got[1].body.payload.variant = "Error"
        /\ chans[c].got[1].body.in_reply_to = chans[c].k
        /\ dispatched[j].msg = chans[c].got[1]
        /\ dispatched[j].consumed
        /\ \A h \in 1..Len(handled) : handled[h] # chans[c].got[1]

\* msg_ids that rpc has registered
RegisteredIds == {chans[c].k : c \in 1..Len(chans)}

\* in_reply_to values of the inbound messages check_callback has seen
CheckedReplyIds ==
    {dispatched[j].msg.body.in_reply_to : j \in 1..Len(dispatched)}

\* the registry's keys are the registered msg_ids that no checked inbound
\* message has answered (the harness answers a request only after it was
\* written, hence after it was registered)
KeysArePendingRpcs == DOMAIN callbacks = RegisteredIds \ CheckedReplyIds

\* an entry is added only by rpc and removed only by check_callback on a
\* matching in_reply_to, which always removes it
RegistryChangesOnlyByRpcAndCheck ==
    /\ (DOMAIN callbacks' # DOMAIN callbacks) =>
          \/ \E t \in Threads :
                /\ CallsRpc(t)
                /\ ret'[t].id # None
                /\ DOMAIN callbacks' = DOMAIN callbacks \cup {ret'[t].id}
          \/ /\ Checked
             /\ CheckedMessage.body.in_reply_to \in DOMAIN callbacks
             /\ callbacks' = Remove(callbacks, CheckedMessage.body.in_reply_to)
    /\ Checked =>
          CheckedMessage.body.in_reply_to \notin DOMAIN callbacks'
    /\ \A c \in 1..Len(chans) :
          (chans[c].rx /\ ~chans'[c].rx /\ chans'[c].got = chans[c].got
           /\ chans[c].k \in DOMAIN callbacks)
          => chans[c].k \in DOMAIN callbacks'

\* C29: in every reachable state the registry's key set is exactly the set
\* of msg_ids registered by rpc for which no inbound message with that
\* in_reply_to has been checked since: an entry is added only by rpc,
\* removed only by check_callback on a matching in_reply_to, and a waiter
\* dropping its receiver does not remove its entry.
C29_RegistryKeys ==
    []KeysArePendingRpcs /\ [][RegistryChangesOnlyByRpcAndCheck]_vars

\* C29 witness: the worker dropped the receiver of an unanswered rpc whose
\* entry is still in the registry, while the entry of the handler's rpc
\* was removed by check_callback on its reply
C29_Witness ==
    /\ \E c \in 1..Len(chans) :
          /\ chans[c].owner = "worker"
          /\ ~chans[c].rx
          /\ chans[c].all = <<>>
          /\ chans[c].k \in DOMAIN callbacks
          /\ callbacks[chans[c].k] = c
    /\ \E c \in 1..Len(chans) :
          /\ chans[c].owner = "main"
          /\ chans[c].all # <<>>
          /\ chans[c].k \notin DOMAIN callbacks

\* C30: every msg_id passed to rpc() within one node is distinct for the
\* whole run, under any interleaving of the issuing threads, which draw
\* their ids from one shared counter; hence no rpc call fails with the
\* duplicate-id error.
C30_RpcIdsDistinct ==
    /\ \A i \in 1..Len(sq.issued) : \A j \in 1..Len(sq.issued) :
          i # j => sq.issued[i].id # sq.issued[j].id
    /\ sq.dups = 0

\* C30 witness: the three workers have each called rpc, one of them with an
\* id smaller than the id of a call made before it (it drew first and
\* called later)
C30_Witness ==
    /\ {sq.issued[i].t : i \in 1..Len(sq.issued)} = SeqWorkers
    /\ \E i \in 1..Len(sq.issued) : \E j \in 1..Len(sq.issued) :
          i < j /\ sq.issued[i].id > sq.issued[j].id

\* C31: a second rpc that fails because msg_id k is already registered
\* leaves the first rpc intact: the registry still maps k to the first
\* caller's one-shot sender, that sender still exists (the first caller's
\* receiver is not disconnected), and no channel the first caller waits
\* on is touched.
C31_DuplicateLeavesFirstIntact ==
    [][\A t \in Threads :
          (CallsRpc(t) /\ ret'[t].res = "duplicate_msg_id")
          => LET k == ret'[t].id
                 c == callbacks[k]
             IN  /\ k \in DOMAIN callbacks'
                 /\ callbacks'[k] = c
                 /\ chans'[c].tx
                 /\ chans'[c] = chans[c]
      ]_vars

\* C32: when rpc fails because the outbound channel is closed, the
\* registry is left as it was before the call: no entry for the
\* message's msg_id remains once rpc has returned.
C32_FailedSendUnregisters ==
    [][\A t \in Threads :
          (RpcSendStep(t) /\ ret'[t].res = "send_failed")
          => ret'[t].id \notin DOMAIN callbacks'
      ]_vars

\* a reply to rpc k was consumed, and k has not been registered again
\* since: the newest one-shot channel made for k has carried a reply
ReplyConsumedFor(k) ==
    \E c \in 1..Len(chans) :
        /\ chans[c].k = k
        /\ chans[c].all # <<>>
        /\ \A d \in (c + 1)..Len(chans) : chans[d].k # k

\* a sender that is still registered has never been used
RegisteredSendersUnused ==
    \A k \in DOMAIN callbacks : chans[callbacks[k]].all = <<>>

\* check_callback returns a further message for an rpc that was answered
LateReplyReturned ==
    (/\ Checked
     /\ CheckedMessage.body.in_reply_to # None
     /\ ReplyConsumedFor(CheckedMessage.body.in_reply_to))
    => /\ ~dispatched'[Len(dispatched')].consumed
       /\ dispatched'[Len(dispatched')].msg = CheckedMessage
       /\ callbacks' = callbacks
       /\ chans' = chans
       /\ JsonRxOpen => json_ch' = Append(json_ch, CheckedMessage)

\* C33: after the reply for rpc k has been consumed, a further inbound
\* message with in_reply_to = k is not consumed and not dropped:
\* check_callback returns it and the dispatcher forwards it to the handler
\* loop as a regular message, unless k has been registered again in
\* between.
C33_LateReplyIsRegular ==
    /\ []RegisteredSendersUnused
    /\ [][LateReplyReturned]_vars

\* C33 witness: two messages with the same in_reply_to were checked; the
\* first was consumed as the reply, the second was returned and has been
\* passed to handle_message
C33_Witness ==
    \E i \in 1..Len(dispatched) : \E j \in 1..Len(dispatched) :
        /\ i < j
        /\ dispatched[i].consumed
        /\ ~dispatched[j].consumed
        /\ dispatched[j].msg.body.in_reply_to
             = dispatched[i].msg.body.in_reply_to
        /\ \E h \in 1..Len(handled) : handled[h] = dispatched[j].msg

\* the dispatcher takes from the line channel a line that is neither the
\* EOI sentinel nor a message of the node's payload type
TakesUnparseable ==
    /\ dpc = "run"
    /\ rx # <<>>
    /\ rx' = Tail(rx)
    /\ Head(rx) # EOI
    /\ from_str(Head(rx), NodeVariants) = ParseError

\* C34: a post-init stdin line that cannot be parsed as a message of the
\* node's payload type affects only itself: the dispatcher goes on to the
\* lines that follow it.
C34_BadLineAffectsOnlyItself ==
    [][TakesUnparseable => dpc' = "run"]_vars

\* the rpc request that was sent with msg_id k: requests carry no
\* in_reply_to, the replies the node writes do
RequestsWithId(k) ==
    {enq[i] : i \in {j \in 1..Len(enq) :
                        /\ enq[j].body.in_reply_to = None
                        /\ enq[j].body.msg_id = k}}

\* C35: a message is consumed as the reply to an outstanding rpc only if
\* it comes from the party the request was addressed to: whenever
\* check_callback consumes a message for registered msg_id k, the
\* message's src equals the dest of the request registered under k.
C35_ReplyFromAddressee ==
    [][(Checked /\ dispatched'[Len(dispatched')].consumed)
         => \E req \in RequestsWithId(CheckedMessage.body.in_reply_to) :
                req.dest = CheckedMessage.src
      ]_vars

\* no handler of a kafka node is waiting for the answer to an rpc
HandlersNeverWait == \A n \in KNodes : kf.pc[n]["handler"] = "run"

\* client c has the send_ok for its i-th send
HasSendOk(c, i) ==
    \E m \in kf.cgot[c] :
        m.body.in_reply_to = i /\ m.body.payload.variant = "SendOk"

\* every send issued so far has its send_ok
AllSendsAnswered ==
    \A c \in KClients : \A i \in 1..MaxSends :
        kf.csent[c] >= i => HasSendOk(c, i)

\* C36: in the kafka workload, when two nodes each receive a client send
\* for a log owned by the other, neither node's message handler blocks:
\* handle_send hands the forward to the send worker and returns, so each
\* handler serves the other node's forwarded send, and under fair delivery
\* every client eventually receives send_ok for each of its sends (again
\* and again, every send issued so far is answered).
C36_NoCrossNodeDeadlock ==
    /\ []HandlersNeverWait
    /\ []<>AllSendsAnswered

\* C36 witness: both clients have their send_ok, and each node's log holds
\* an entry that the other node forwarded to it
C36_Witness ==
    /\ \A c \in KClients : HasSendOk(c, 1)
    /\ \A n \in KNodes : \E key \in KKeys :
          \E e \in 1..Len(kf.logs[n][key]) :
              kf.logs[n][key][e].src \in KNodes \ {n}

\* the send requests that are in flight or wait in a handler loop's channel
SendsUnderway ==
    {m \in kf.net : m.body.payload.variant = "Send"}
    \cup UNION {{kf.jq[n][i] : i \in 1..Len(kf.jq[n])} : n \in KNodes}

\* C37: in the kafka workload with all nodes given the same node_ids list,
\* the assertion in handle_send never fails: a send forwarded by a node's
\* send worker is addressed to the owner computed by get_partition, so a
\* node never receives, from another node, a send for a log it does not
\* own.
C37_ForwardReachesOwner ==
    /\ \A n \in KNodes : kf.pc[n]["handler"] # "panicked"
    /\ \A m \in SendsUnderway :
          (m.body.payload.variant = "Send" /\ m.src \in KNodes)
          => /\ m.dest = get_partition(m.body.payload.key, KNodeIds)
             /\ m.dest # m.src

\* C37 witness: a node has appended to a log it owns a send that the other
\* node forwarded, and the forwarding node's worker has the answer
C37_Witness ==
    \E n \in KNodes : \E key \in KKeys :
        /\ get_partition(key, KNodeIds) = n
        /\ \E e \in 1..Len(kf.logs[n][key]) :
              LET o == kf.logs[n][key][e].src
              IN  /\ o \in KNodes \ {n}
                  /\ kf.buf[o]["send_worker"] # NoMsg

\* C38: in the gcount worker, whenever unapplied is decremented by
\* to_apply (after a cas reply that is cas_ok or an error), the write was
\* applied: the value stored in seq-kv under the node's own key has
\* increased by exactly to_apply since the preceding read, so no
\* acknowledged add is lost or counted twice.
C38_DecrementMeansApplied ==
    /\ [][gc'.unapplied < gc.unapplied
            => gc'.store = gc.from + gc.to_apply]_vars
    /\ [](gc.store + gc.unapplied = gc.acked)

\* the replicate_ok messages from peer p to node n that can arrive
AcksFrom(p, n) ==
    {m \in bc.net : /\ m.src = p
                    /\ m.dest = n
                    /\ m.body.payload.variant = "ReplicateOk"}

\* C39: in the broadcast workload, an entry (seq, message) is removed from
\* unreplicated[peer] only by a replicate_ok from that peer whose acked
\* seq is at least the entry's seq, and at that moment the peer has
\* already inserted the message into its own messages set; a replicate_ok
\* from one peer never removes entries kept for another peer.
C39_RemovedOnlyWhenAcked ==
    [][\A n \in bc.node_ids : \A p \in DOMAIN bc.unreplicated[n] :
          \A e \in bc.unreplicated[n][p] :
             e \notin bc'.unreplicated[n][p]
             => /\ \E m \in AcksFrom(p, n) :
                      /\ m.body.payload.seq >= e.seq
                      /\ bc'.unreplicated[n][p] =
                           {x \in bc.unreplicated[n][p] :
                               x.seq > m.body.payload.seq}
                /\ e.message \in bc.messages[p]
                /\ \A q \in (DOMAIN bc.unreplicated[n]) \ {p} :
                      bc'.unreplicated[n][q] = bc.unreplicated[n][q]
      ]_vars

\* C39 witness: one replicate_ok of a peer has cleared both entries a node
\* kept for it, while the entries for the other peer, which has neither
\* value yet, are all still there
C39_Witness ==
    \E n \in bc.node_ids :
        /\ bc.seq[n] = 2
        /\ \E p \in DOMAIN bc.unreplicated[n] :
           \E q \in DOMAIN bc.unreplicated[n] :
              /\ p # q
              /\ bc.unreplicated[n][p] = {}
              /\ bc.messages[n] \subseteq bc.messages[p]
              /\ Cardinality(bc.unreplicated[n][q]) = 2
              /\ bc.messages[q] = {}
              /\ \A m \in AcksFrom(p, n) : m.body.payload.seq = 1

\* every value a client has broadcast is in the messages set of every node
AllReplicated ==
    \A n \in bc.node_ids : \A v \in 1..bc.vals : v \in bc.messages[n]

\* C40: in the broadcast workload, every value accepted by
\* handle_broadcast at any node is eventually contained in the messages
\* set of every other node in node_ids, even if the network drops, delays
\* or reorders individual replicate and replicate_ok messages, provided
\* that a replicate message resent infinitely often to a peer is
\* eventually delivered (messages sets only grow, so: again and again
\* every value broadcast so far is in every set).
C40_EventuallyEverywhere ==
    /\ [][\A n \in bc.node_ids : bc.messages[n] \subseteq bc'.messages[n]]_vars
    /\ []<>AllReplicated

\* C40 witness: both values have reached every node although no
\* replicate_ok was ever handled: every entry is still unreplicated
C40_Witness ==
    /\ bc.vals = MaxBroadcasts
    /\ AllReplicated
    /\ \A n \in bc.node_ids : \A p \in DOMAIN bc.unreplicated[n] :
          Cardinality(bc.unreplicated[n][p]) = bc.seq[n]
    /\ \E n \in bc.node_ids : bc.seq[n] = 1

====
